---- MODULE Spec2Model ----
(***************************************************************************)
(* Verification model of the ono language pipeline (herluf-ba/ono-lang):   *)
(*   - Environment<V>            src/src/environment.rs                    *)
(*   - onoi Lexer                src/onoi/src/lexer.rs                     *)
(*   - onoi Parser               src/onoi/src/parser.rs                    *)
(*   - onoi Typechecker          src/onoi/src/typechecker.rs               *)
(*   - onoi Interpreter / run    src/onoi/src/interpreter.rs, lib.rs       *)
(*   - tree-walking Interpreter  src/src/interpreter.rs, functions.rs      *)
(* The tree-walking interpreter's numbers are integers, onoi's numbers are *)
(* reduced fractions; an Option<T> is <<>> (None) or <<v>> (Some(v)); a    *)
(* Result is a record with an `ok` field.                                  *)
(***************************************************************************)
EXTENDS Integers, Sequences, FiniteSets, TLC

VARIABLES
    env,        \* Environment API machine: the Environment<V> under test
    envLast,    \* last Environment operation with its arguments and result
    envMarks,   \* one entry per new_nested() not yet popped: the environment before it
    legStatements,  \* tree-walking interpreter: the statement list given to interpret
    legPc,          \* index of the statement interpret visits next
    legSt,          \* Interpreter.environment, the println! output, the clock
    legResult,      \* None while interpret runs, then what it returned
    overflow_checks,    \* build profile: TRUE when integer overflow panics (debug)
    lexSrc,         \* onoi Lexer: the graphemes of the source given to tokenize
    lexer,          \* the Lexer struct
    lexErrors,      \* the local `errors` of tokenize
    lexPc,          \* "idle", "scan" (in the while loop), "done", "diverged", "panicked"
    lexResult,      \* None while tokenize runs, then what it returned
    runSrc,         \* onoi run: the graphemes of the program given to run
    runPc,          \* the phase about to execute, or "returned", "panicked", "diverged"
    runTokens,      \* `tokens` of run
    runStatements,  \* `statements` of run, or the list given to check and interpret
    typechecker,    \* the Typechecker, None before Typechecker::new
    interpreter,    \* the Interpreter, None before Interpreter::new
    runIndex,       \* index of the statement the running check or interpret visits next
    runErrors,      \* the local `errors` of the running check or interpret
    runTrace,       \* the phases that have returned so far, each with its result
    runResult,      \* None while run executes, then what it returned
    parser,         \* onoi Parser: the Parser struct, used for one parse call after another
    parsePc,        \* "idle", "call" (between calls), "loop" (in the while loop), "panicked"
    parseInputs,    \* the token lists of the parse calls still to make
    parseErrors,    \* the local `errors` of parse
    parseStatements,    \* the local `statements` of parse
    parseResults    \* what the parse calls made so far returned

envVars == <<env, envLast, envMarks>>
legVars == <<legStatements, legPc, legSt, legResult>>
lexVars == <<overflow_checks, lexSrc, lexer, lexErrors, lexPc, lexResult>>
runVars == <<runSrc, runPc, runTokens, runStatements, typechecker, interpreter,
             runIndex, runErrors, runTrace, runResult>>
parVars == <<parser, parsePc, parseInputs, parseErrors, parseStatements, parseResults>>
vars == <<env, envLast, envMarks, legStatements, legPc, legSt, legResult,
          overflow_checks, lexSrc, lexer, lexErrors, lexPc, lexResult,
          runSrc, runPc, runTokens, runStatements, typechecker, interpreter,
          runIndex, runErrors, runTrace, runResult,
          parser, parsePc, parseInputs, parseErrors, parseStatements, parseResults>>
notEnvVars == <<legVars, lexVars, runVars, parVars>>
notLegVars == <<envVars, lexVars, runVars, parVars>>
notLexVars == <<envVars, legVars, runVars, parVars>>
notRunVars == <<envVars, legVars, lexer, lexSrc, lexErrors, lexPc, lexResult, parVars>>
notParVars == <<envVars, legVars, lexVars, runVars>>

None == <<>>
Some(v) == <<v>>

(***************************************************************************)
(* Environment<V>: a chain of frames.  The chain is a sequence, element 1  *)
(* is `values` of the innermost frame and the tail is `enclosing`.  Frames *)
(* are owned by value (Box + derive(Clone)), so a copy shares nothing.     *)
(***************************************************************************)
EmptyFrame == [n \in {} |-> 0]

\* Environment::new
new == <<EmptyFrame>>

\* Environment::new_nested
new_nested(self) == <<EmptyFrame>> \o self

\* Environment::pop
pop(self) == IF Len(self) > 1 THEN Tail(self) ELSE self

\* define that, like assign, writes the nearest frame already binding the name
define_nearest_binding(self, name, value) ==
    LET i == IF \E k \in 1..Len(self) : name \in DOMAIN self[k]
             THEN CHOOSE k \in 1..Len(self) :
                     /\ name \in DOMAIN self[k]
                     /\ \A j \in 1..(k - 1) : name \notin DOMAIN self[j]
             ELSE 1
    IN  [self EXCEPT ![i] = [n \in DOMAIN self[i] \cup {name} |->
                                IF n = name THEN value ELSE self[i][n]]]

\* Environment::define
define(self, name, value) ==
    [self EXCEPT ![1] = [n \in DOMAIN self[1] \cup {name} |->
                            IF n = name THEN value ELSE self[1][n]]]

\* get that looks in the innermost frame only
get_innermost_frame(self, name) ==
    IF name \in DOMAIN self[1] THEN Some(self[1][name]) ELSE None

\* Environment::get
RECURSIVE get(_, _)
get(self, name) ==
    IF name \in DOMAIN self[1] THEN Some(self[1][name])
    ELSE IF Len(self) > 1 THEN get(Tail(self), name)
    ELSE None

\* assign whose vacant entry at the root is filled instead of reported
RECURSIVE assign_or_insert(_, _, _)
assign_or_insert(self, name, value) ==
    IF name \in DOMAIN self[1]
    THEN [ok |-> TRUE, env |-> [self EXCEPT ![1][name] = value]]
    ELSE IF Len(self) > 1
         THEN LET r == assign_or_insert(Tail(self), name, value)
              IN  [ok |-> r.ok, env |-> <<self[1]>> \o r.env]
         ELSE [ok |-> TRUE,
               env |-> <<[n \in DOMAIN self[1] \cup {name} |->
                            IF n = name THEN value ELSE self[1][n]]>>]

\* Environment::assign
RECURSIVE assign(_, _, _)
assign(self, name, value) ==
    IF name \in DOMAIN self[1]
    THEN [ok |-> TRUE, env |-> [self EXCEPT ![1][name] = value]]
    ELSE IF Len(self) > 1
         THEN LET r == assign(Tail(self), name, value)
              IN  [ok |-> r.ok, env |-> <<self[1]>> \o r.env]
         ELSE [ok |-> FALSE, env |-> self]

(***************************************************************************)
(* Environment API machine                                                 *)
(***************************************************************************)
MaxDepth == 3
EnvNames == {"x", "y"}
EnvValues == {1, 2}

EnvIdle ==
    /\ env = new
    /\ envLast = [op |-> "new"]
    /\ envMarks = <<>>

LegIdle ==
    /\ legStatements = <<>>
    /\ legPc = 1
    /\ legSt = <<>>
    /\ legResult = None

LexIdle ==
    /\ overflow_checks = TRUE
    /\ lexSrc = <<>>
    /\ lexer = <<>>
    /\ lexErrors = <<>>
    /\ lexPc = "idle"
    /\ lexResult = None

RunIdle ==
    /\ runSrc = <<>>
    /\ runPc = "idle"
    /\ runTokens = <<>>
    /\ runStatements = <<>>
    /\ typechecker = None
    /\ interpreter = None
    /\ runIndex = 1
    /\ runErrors = <<>>
    /\ runTrace = <<>>
    /\ runResult = None

ParIdle ==
    /\ parser = <<>>
    /\ parsePc = "idle"
    /\ parseInputs = <<>>
    /\ parseErrors = <<>>
    /\ parseStatements = <<>>
    /\ parseResults = <<>>

EnvInit == EnvIdle /\ LegIdle /\ LexIdle /\ RunIdle /\ ParIdle

EnvNewNested ==
    /\ Len(env) < MaxDepth
    /\ env' = new_nested(env)
    /\ envMarks' = <<[before |-> env, onlyDefines |-> TRUE, defs |-> EmptyFrame]>> \o envMarks
    /\ envLast' = [op |-> "new_nested"]
    /\ UNCHANGED notEnvVars

EnvPop ==
    /\ env' = pop(env)
    /\ envMarks' = IF envMarks = <<>> THEN <<>> ELSE Tail(envMarks)
    /\ envLast' = [op |-> "pop", before |-> env,
                   mark |-> IF envMarks = <<>> THEN None ELSE Some(Head(envMarks))]
    /\ UNCHANGED notEnvVars

EnvDefine ==
    \E name \in EnvNames, value \in EnvValues :
        /\ env' = define(env, name, value)
        /\ envLast' = [op |-> "define", name |-> name, value |-> value, before |-> env]
        /\ envMarks' = IF envMarks = <<>> \/ ~envMarks[1].onlyDefines THEN envMarks
                       ELSE [envMarks EXCEPT ![1].defs =
                                [n \in DOMAIN envMarks[1].defs \cup {name} |->
                                    IF n = name THEN value ELSE envMarks[1].defs[n]]]
        /\ UNCHANGED notEnvVars

EnvGet ==
    \E name \in EnvNames :
        /\ envLast' = [op |-> "get", name |-> name, before |-> env,
                       result |-> get(env, name)]
        /\ UNCHANGED <<env, envMarks>>
        /\ UNCHANGED notEnvVars

EnvAssign ==
    \E name \in EnvNames, value \in EnvValues :
        LET r == assign(env, name, value) IN
        /\ env' = r.env
        /\ envLast' = [op |-> "assign", name |-> name, value |-> value,
                       before |-> env, ok |-> r.ok]
        /\ envMarks' = [i \in DOMAIN envMarks |->
                            [before |-> None, onlyDefines |-> FALSE, defs |-> EmptyFrame]]
        /\ UNCHANGED notEnvVars

EnvNext == EnvNewNested \/ EnvPop \/ EnvDefine \/ EnvGet \/ EnvAssign

SpecEnv == EnvInit /\ [][EnvNext]_vars

\* Index of the innermost frame of chain e that binds name, 0 when no frame does.
BindingFrame(e, name) ==
    IF \E i \in 1..Len(e) : name \in DOMAIN e[i]
    THEN CHOOSE i \in 1..Len(e) :
            /\ name \in DOMAIN e[i]
            /\ \A j \in 1..(i - 1) : name \notin DOMAIN e[j]
    ELSE 0

\* C9: assign(name, v) on a chain where no frame binds name returns Err and
\* changes no frame; otherwise it returns Ok, overwrites the binding in the
\* innermost frame that binds name and leaves every other binding unchanged.
C9_AssignFrameEffect ==
    envLast.op = "assign" =>
        LET b == envLast.before
            i == BindingFrame(b, envLast.name)
        IN  IF i = 0
            THEN ~envLast.ok /\ env = b
            ELSE /\ envLast.ok
                 /\ env = [b EXCEPT ![i] = [b[i] EXCEPT ![envLast.name] = envLast.value]]

\* C9 witness: an assign succeeded in an enclosing frame while an outer frame
\* binds the same name with another value and the innermost frame does not.
C9_Witness ==
    /\ envLast.op = "assign"
    /\ envLast.ok
    /\ Len(envLast.before) = 3
    /\ BindingFrame(envLast.before, envLast.name) = 2
    /\ envLast.name \in DOMAIN envLast.before[3]
    /\ envLast.before[2][envLast.name] # envLast.value
    /\ env[3][envLast.name] # envLast.value

\* C10: define writes only the innermost frame, get returns the innermost
\* binding, and after new_nested(), defines only, and pop() the environment
\* is the one before new_nested(); a get between define and pop returns the
\* newly defined value.
C10_DefineGetPopScoped ==
    /\ envLast.op = "define" =>
            /\ Tail(env) = Tail(envLast.before)
            /\ DOMAIN env[1] = DOMAIN envLast.before[1] \cup {envLast.name}
            /\ env[1][envLast.name] = envLast.value
            /\ \A n \in DOMAIN envLast.before[1] \ {envLast.name} :
                    env[1][n] = envLast.before[1][n]
    /\ envLast.op = "get" =>
            LET i == BindingFrame(envLast.before, envLast.name)
            IN  /\ envLast.result = IF i = 0 THEN None
                                    ELSE Some(envLast.before[i][envLast.name])
                /\ (/\ envMarks # <<>>
                    /\ envMarks[1].onlyDefines
                    /\ envLast.name \in DOMAIN envMarks[1].defs)
                        => envLast.result = Some(envMarks[1].defs[envLast.name])
    /\ (envLast.op = "pop" /\ envLast.mark # None /\ envLast.mark[1].onlyDefines)
            => env = envLast.mark[1].before

\* C10 witness: a nested frame that shadowed a name of an enclosing frame
\* with a different value has just been popped.
C10_Witness ==
    /\ envLast.op = "pop"
    /\ envLast.mark # None
    /\ envLast.mark[1].onlyDefines
    /\ \E n \in DOMAIN envLast.mark[1].defs :
            /\ BindingFrame(envLast.mark[1].before, n) # 0
            /\ get(envLast.mark[1].before, n) # Some(envLast.mark[1].defs[n])
            /\ get(envLast.before, n) = Some(envLast.mark[1].defs[n])

(***************************************************************************)
(* Tree-walking interpreter with functions and closures                    *)
(* (src/src/interpreter.rs, src/src/functions.rs, src/src/ast.rs).         *)
(* The interpreter state threaded through evaluation is                    *)
(*   [environment, out, now]: Interpreter.environment, the lines written   *)
(*   by println!, and the reading of the system clock.                     *)
(* A Result<T, Error> is [ok |-> TRUE, value, st] or [ok |-> FALSE, error, *)
(* st].  An error of kind "Diverge" stands for an evaluation that is still *)
(* running after MaxLoopIter iterations of one loop or MaxCallDepth nested *)
(* calls; nothing after it executes.                                       *)
(***************************************************************************)
MaxLoopIter == 4
MaxCallDepth == 3

\* lexer Token {kind, lexeme, row, column}; payload is the value a
\* NUMBER/STRING/IDENTIFIER kind carries, None otherwise
Token(kind, payload, lexeme, row, column) ==
    [kind |-> kind, payload |-> payload, lexeme |-> lexeme, row |-> row, column |-> column]

\* enum Value
Number(n) == [t |-> "Number", v |-> n]
Text(s) == [t |-> "Text", v |-> s]
Bool(b) == [t |-> "Bool", v |-> b]
Null == [t |-> "Null"]
RangeValue(from, to, step_by) ==
    [t |-> "Range", from |-> from, to |-> to, step_by |-> step_by]
Function(name, params, body, closure) ==
    [t |-> "Function", name |-> name, params |-> params, body |-> body, closure |-> closure]
NativeFunction(name) == [t |-> "NativeFunction", name |-> name, params |-> <<>>]

\* Value::is_equal
is_equal(a, b) ==
    CASE a.t = "NativeFunction" -> b.t = "NativeFunction" /\ a.name = b.name
      [] a.t = "Function" -> b.t = "Function" /\ a.name.lexeme = b.name.lexeme
      [] a.t = "Range" -> /\ b.t = "Range"
                          /\ a.to = b.to /\ a.from = b.from /\ a.step_by = b.step_by
      [] a.t \in {"Bool", "Text", "Number"} -> b.t = a.t /\ a.v = b.v
      [] OTHER -> b.t = "Null"

\* Value::is_truthy
is_truthy(v) == IF v.t = "Null" THEN FALSE ELSE IF v.t = "Bool" THEN v.v ELSE TRUE

\* impl From<&Token> for Value
ValueFromToken(token) ==
    CASE token.kind = "NUMBER" -> Number(token.payload)
      [] token.kind = "STRING" -> Text(token.payload)
      [] token.kind = "FALSE" -> Bool(FALSE)
      [] token.kind = "TRUE" -> Bool(TRUE)
      [] OTHER -> Null

RECURSIVE JoinStrings(_, _)
JoinStrings(strs, sep) ==
    IF strs = <<>> THEN ""
    ELSE IF Len(strs) = 1 THEN strs[1]
    ELSE strs[1] \o sep \o JoinStrings(Tail(strs), sep)

\* impl Display for Value
DisplayValue(v) ==
    CASE v.t = "Range" ->
            ToString(v.from) \o ".."
                \o (IF v.step_by # 1 THEN ToString(v.step_by) \o ".." ELSE "")
                \o ToString(v.to)
      [] v.t = "Bool" -> IF v.v THEN "true" ELSE "false"
      [] v.t = "Text" -> v.v
      [] v.t = "Number" -> ToString(v.v)
      [] v.t = "Null" -> "null"
      [] v.t = "Function" -> v.name.lexeme \o "(" \o JoinStrings(v.params, ", ") \o ")"
      [] OTHER -> "NativeFunction<" \o v.name \o ">"

\* Error::type_error / syntax_error / runtime_error
type_error(errno, token) == [kind |-> "Type", errno |-> errno, token |-> token]
syntax_error(errno, token) == [kind |-> "Syntax", errno |-> errno, token |-> token]
runtime_error(errno, token) == [kind |-> "Runtime", errno |-> errno, token |-> token]
\* Error::return_error: the ErrorKind::Return(value) that Function::call unwraps
return_error(value, keyword) == [kind |-> "Return", value |-> value, token |-> keyword]
DivergeError == [kind |-> "Diverge"]
PanicError == [kind |-> "Panic"]

Ok(value, st) == [ok |-> TRUE, value |-> value, st |-> st]
Err(error, st) == [ok |-> FALSE, error |-> error, st |-> st]

\* Environment::nest
nest(self) == new_nested(self)

\* functions::create_global_environment
create_global_environment == define(new, "clock", NativeFunction("clock"))

\* Interpreter::unary
unary(operator, value) ==
    CASE operator.kind = "BANG" ->
            IF value.t = "Null" THEN [ok |-> TRUE, value |-> Bool(FALSE)]
            ELSE IF value.t = "Bool" THEN [ok |-> TRUE, value |-> Bool(~value.v)]
            ELSE [ok |-> FALSE,
                  error |-> type_error([code |-> "T001", operand |-> value], operator)]
      [] operator.kind = "MINUS" ->
            IF value.t = "Number" THEN [ok |-> TRUE, value |-> Number(0 - value.v)]
            ELSE [ok |-> FALSE,
                  error |-> type_error([code |-> "T001", operand |-> value], operator)]
      [] OTHER -> [ok |-> FALSE, error |-> syntax_error([code |-> "S001"], operator)]

\* Interpreter::binary
binary(operator, left, right) ==
    LET mismatch_error ==
            [ok |-> FALSE,
             error |-> type_error([code |-> "T002", left |-> left, right |-> right], operator)]
        numbers == left.t = "Number" /\ right.t = "Number"
        val(v) == [ok |-> TRUE, value |-> v]
    IN  CASE operator.kind = "PLUS" ->
                IF numbers THEN val(Number(left.v + right.v))
                ELSE IF left.t = "Text" /\ right.t = "Text"
                     THEN val(Text(left.v \o right.v))
                     ELSE mismatch_error
          [] operator.kind = "MINUS" ->
                IF numbers THEN val(Number(left.v - right.v)) ELSE mismatch_error
          [] operator.kind = "STAR" ->
                IF numbers THEN val(Number(left.v * right.v)) ELSE mismatch_error
          [] operator.kind = "SLASH" ->
                IF numbers
                THEN IF right.v # 0 THEN val(Number(left.v \div right.v))
                     ELSE [ok |-> FALSE,
                           error |-> runtime_error([code |-> "R002"], operator)]
                ELSE mismatch_error
          [] operator.kind = "GREATER" ->
                IF numbers THEN val(Bool(left.v > right.v)) ELSE mismatch_error
          [] operator.kind = "GREATEREQUAL" ->
                IF numbers THEN val(Bool(left.v >= right.v)) ELSE mismatch_error
          [] operator.kind = "EQUALEQUAL" -> val(Bool(is_equal(left, right)))
          [] operator.kind = "BANGEQUAL" -> val(Bool(~is_equal(left, right)))
          [] operator.kind = "LESS" ->
                IF numbers THEN val(Bool(left.v < right.v)) ELSE mismatch_error
          [] operator.kind = "LESSEQUAL" ->
                IF numbers THEN val(Bool(left.v <= right.v)) ELSE mismatch_error
          [] OTHER -> [ok |-> FALSE, error |-> syntax_error([code |-> "S001"], operator)]

Min(a, b) == IF a <= b THEN a ELSE b
Max(a, b) == IF a >= b THEN a ELSE b

\* the loop of Function::call that binds each parameter to its argument
RECURSIVE define_params(_, _, _, _)
define_params(environment, params, arguments, i) ==
    IF i > Len(arguments) THEN environment
    ELSE define_params(define(environment, params[i], arguments[i]),
                       params, arguments, i + 1)

RECURSIVE visit_expression(_, _, _)
RECURSIVE visit_statement(_, _, _)
RECURSIVE visit_arguments(_, _, _, _, _)
RECURSIVE call_body(_, _, _, _)
RECURSIVE block_body(_, _, _, _)
RECURSIVE while_loop(_, _, _, _)
RECURSIVE for_loop(_, _, _, _, _, _, _)

\* impl Func for Function: call.  `self.closure = ...` at its end writes the
\* callee copy that Expr::Call took out of the environment and then drops.
Function_call(st, self, arguments, called_at, d) ==
    IF d = 0 THEN Err(DivergeError, st)
    ELSE LET prev_env == st.environment
             entered == [st EXCEPT !.environment =
                            define_params(self.closure, self.params, arguments, 1)]
             run == call_body(entered, self.body, 1, d - 1)
         IN  IF ~run.ok THEN run
             ELSE Ok(run.value, [run.st EXCEPT !.environment = prev_env])

\* the body loop taking a Return signal for a completed statement
RECURSIVE call_body_ignoring_return(_, _, _, _)
call_body_ignoring_return(st, body, i, d) ==
    IF i > Len(body) THEN Ok(Null, st)
    ELSE LET r == visit_statement(st, body[i], d)
         IN  IF r.ok THEN call_body_ignoring_return(r.st, body, i + 1, d)
             ELSE IF r.error.kind = "Return"
             THEN call_body_ignoring_return(r.st, body, i + 1, d)
             ELSE r

\* the `for stmt in self.body.iter()` loop of Function::call
call_body(st, body, i, d) ==
    IF i > Len(body) THEN Ok(Null, st)
    ELSE LET r == visit_statement(st, body[i], d)
         IN  IF r.ok THEN call_body(r.st, body, i + 1, d)
             ELSE IF r.error.kind = "Return" THEN Ok(r.error.value, r.st)
             ELSE r

\* impl Func for NativeFunction: call, with nf_clock as the only native
NativeFunction_call(st, self, arguments, called_at) ==
    IF st.now # None
    THEN Ok(Number(st.now[1]), [st EXCEPT !.now = Some(st.now[1] + 1)])
    ELSE Err([runtime_error([code |-> "R004"], called_at) EXCEPT !.token = called_at], st)

\* the map(..).collect::<Result<Vec<Value>, Error>>() of prepare_func_args
visit_arguments(st, arguments, i, acc, d) ==
    IF i > Len(arguments) THEN Ok(acc, st)
    ELSE LET r == visit_expression(st, arguments[i], d)
         IN  IF ~r.ok THEN r
             ELSE visit_arguments(r.st, arguments, i + 1, Append(acc, r.value), d)

\* Interpreter::prepare_func_args
prepare_func_args(st, expected, arguments, open_paren, d) ==
    IF Len(arguments) # expected
    THEN Err(type_error([code |-> "T005", expected |-> expected,
                         received |-> Len(arguments)], open_paren), st)
    ELSE visit_arguments(st, arguments, 1, <<>>, d)

\* impl ExprVisitor for Interpreter
visit_expression(st, e, d) ==
    CASE e.e = "Literal" -> Ok(ValueFromToken(e.value), st)
      [] e.e = "Variable" ->
            LET r == get(st.environment, e.name.lexeme)
            IN  IF r # None THEN Ok(r[1], st)
                ELSE Err(runtime_error([code |-> "R001"], e.name), st)
      [] e.e = "Assign" ->
            LET val == visit_expression(st, e.expr, d)
            IN  IF ~val.ok THEN val
                ELSE LET a == assign(val.st.environment, e.name.lexeme, val.value)
                     IN  IF a.ok
                         THEN Ok(val.value, [val.st EXCEPT !.environment = a.env])
                         ELSE Err(runtime_error([code |-> "R001"], e.name), val.st)
      [] e.e = "Unary" ->
            LET val == visit_expression(st, e.expr, d)
            IN  IF ~val.ok THEN val
                ELSE LET u == unary(e.operator, val.value)
                     IN  IF u.ok THEN Ok(u.value, val.st) ELSE Err(u.error, val.st)
      [] e.e = "Binary" ->
            LET left == visit_expression(st, e.left, d)
            IN  IF ~left.ok THEN left
                ELSE LET right == visit_expression(left.st, e.right, d)
                     IN  IF ~right.ok THEN right
                         ELSE LET b == binary(e.operator, left.value, right.value)
                              IN  IF b.ok THEN Ok(b.value, right.st)
                                  ELSE Err(b.error, right.st)
      [] e.e = "Group" -> visit_expression(st, e.expr, d)
      [] e.e = "Logical" ->
            LET left == visit_expression(st, e.left, d)
            IN  IF ~left.ok THEN left
                ELSE IF e.operator.kind = "OR" /\ is_truthy(left.value) THEN left
                ELSE IF e.operator.kind = "AND" /\ ~is_truthy(left.value) THEN left
                ELSE visit_expression(left.st, e.right, d)
      [] e.e = "Range" ->
            LET from == visit_expression(st, e.from, d)
            IN  IF ~from.ok THEN from
                ELSE
                LET to == visit_expression(from.st, e.to, d)
                IN  IF ~to.ok THEN to
                    ELSE
                    LET step_by == IF e.step_by # None
                                   THEN visit_expression(to.st, e.step_by[1], d)
                                   ELSE Ok(None, to.st)
                    IN  IF ~step_by.ok THEN step_by
                        ELSE
                        LET given == IF e.step_by # None THEN Some(step_by.value) ELSE None
                            bad == Err(type_error([code |-> "T003", from |-> from.value,
                                                   to |-> to.value, step_by |-> given],
                                                  e.token), step_by.st)
                        IN  IF from.value.t # "Number" THEN bad
                            ELSE IF to.value.t # "Number" THEN bad
                            ELSE IF given # None /\ given[1].t # "Number" THEN bad
                            ELSE Ok(RangeValue(from.value.v, to.value.v,
                                               IF given = None THEN 1 ELSE given[1].v),
                                    step_by.st)
      [] OTHER -> \* Expr::Call
            LET callee == visit_expression(st, e.callee, d)
            IN  IF ~callee.ok THEN callee
                ELSE IF callee.value.t \in {"Function", "NativeFunction"}
                THEN LET args == prepare_func_args(callee.st, Len(callee.value.params),
                                                   e.arguments, e.paren, d)
                     IN  IF ~args.ok THEN args
                         ELSE IF callee.value.t = "Function"
                         THEN Function_call(args.st, callee.value, args.value, e.paren, d)
                         ELSE NativeFunction_call(args.st, callee.value, args.value, e.paren)
                ELSE Err(type_error([code |-> "T004", callee |-> callee.value], e.paren),
                         callee.st)

\* the statement loop of Stmt::Block, each statement under `?`
block_body(st, statements, i, d) ==
    IF i > Len(statements) THEN Ok(Null, st)
    ELSE LET r == visit_statement(st, statements[i], d)
         IN  IF ~r.ok THEN r ELSE block_body(r.st, statements, i + 1, d)

\* the `while` of Stmt::While
while_loop(st, s, iter, d) ==
    LET c == visit_expression(st, s.condition, d)
    IN  IF ~c.ok THEN c
        ELSE IF ~is_truthy(c.value) THEN Ok(Null, c.st)
        ELSE IF iter >= MaxLoopIter THEN Err(DivergeError, c.st)
        ELSE LET b == visit_statement(c.st, s.body, d)
             IN  IF ~b.ok THEN b ELSE while_loop(b.st, s, iter + 1, d)

\* the `while num < dest` of Stmt::For
for_loop(st, s, num, dest, step_by, iter, d) ==
    IF ~(num < dest) THEN Ok(Null, st)
    ELSE IF iter >= MaxLoopIter THEN Err(DivergeError, st)
    ELSE LET a == assign(st.environment, s.identifier.lexeme, Number(num))
         IN  IF ~a.ok THEN Err(PanicError, st)
             ELSE LET b == visit_statement([st EXCEPT !.environment = a.env], s.body, d)
                  IN  IF ~b.ok THEN b
                      ELSE for_loop(b.st, s, num + step_by, dest, step_by, iter + 1, d)

\* impl StmtVisitor for Interpreter
visit_statement(st, s, d) ==
    CASE s.s = "Expression" ->
            LET r == visit_expression(st, s.expr, d)
            IN  IF ~r.ok THEN r ELSE Ok(Null, r.st)
      [] s.s = "Print" ->
            LET r == visit_expression(st, s.expr, d)
            IN  IF ~r.ok THEN r
                ELSE Ok(Null, [r.st EXCEPT !.out = Append(@, DisplayValue(r.value))])
      [] s.s = "Let" ->
            LET r == visit_expression(st, s.initializer, d)
            IN  IF ~r.ok THEN r
                ELSE Ok(Null, [r.st EXCEPT !.environment =
                                    define(@, s.name.lexeme, r.value)])
      [] s.s = "Block" ->
            LET r == block_body([st EXCEPT !.environment = nest(@)], s.statements, 1, d)
            IN  IF ~r.ok THEN r
                ELSE Ok(Null, [r.st EXCEPT !.environment = pop(@)])
      [] s.s = "If" ->
            LET c == visit_expression(st, s.condition, d)
            IN  IF ~c.ok THEN c
                ELSE IF is_equal(c.value, Bool(TRUE)) THEN visit_statement(c.st, s.then, d)
                ELSE IF s.eelse # None THEN visit_statement(c.st, s.eelse[1], d)
                ELSE Ok(Null, c.st)
      [] s.s = "While" -> while_loop(st, s, 0, d)
      [] s.s = "For" ->
            LET rng == visit_expression(st, s.range, d)
            IN  IF ~rng.ok THEN rng
                ELSE IF rng.value.t # "Range" THEN Ok(Null, rng.st)
                ELSE
                LET to == rng.value.to
                    from == rng.value.from
                    step_by == rng.value.step_by
                IN  IF (step_by > 0 /\ to <= from) \/ (step_by < 0 /\ from <= to)
                    THEN IF s.range.e = "Range"
                         THEN Err(runtime_error([code |-> "R003", from |-> from, to |-> to,
                                                 step_by |-> step_by], s.range.token),
                                  rng.st)
                         ELSE Err(PanicError, rng.st)
                    ELSE LET num == Min(to, from)
                             dest == Max(to, from)
                             bound == [rng.st EXCEPT !.environment =
                                          define(@, s.identifier.lexeme, Number(num))]
                         IN  for_loop(bound, s, num, dest, step_by, 0, d)
      [] s.s = "Function" ->
            Ok(Null, [st EXCEPT !.environment =
                        define(@, s.name.lexeme,
                               Function(s.name, [i \in DOMAIN s.params |-> s.params[i].lexeme],
                                        s.body, new_nested(st.environment)))])
      [] OTHER -> \* Stmt::Return
            LET r == IF s.expr # None THEN visit_expression(st, s.expr[1], d)
                     ELSE Ok(Null, st)
            IN  IF ~r.ok THEN r
                ELSE Err(return_error(r.value, s.keyword), r.st)

(***************************************************************************)
(* AST of the tree-walking interpreter (src/src/ast.rs)                    *)
(***************************************************************************)
Literal(value) == [e |-> "Literal", value |-> value]
Variable(name) == [e |-> "Variable", name |-> name]
Assign(name, expr) == [e |-> "Assign", name |-> name, expr |-> expr]
Unary(operator, expr) == [e |-> "Unary", operator |-> operator, expr |-> expr]
Binary(operator, left, right) ==
    [e |-> "Binary", operator |-> operator, left |-> left, right |-> right]
Logical(operator, left, right) ==
    [e |-> "Logical", operator |-> operator, left |-> left, right |-> right]
Group(expr) == [e |-> "Group", expr |-> expr]
Range(token, from, step_by, to) ==
    [e |-> "Range", token |-> token, from |-> from, step_by |-> step_by, to |-> to]
Call(callee, paren, arguments) ==
    [e |-> "Call", callee |-> callee, paren |-> paren, arguments |-> arguments]

Stmt_Expression(expr) == [s |-> "Expression", expr |-> expr]
Stmt_Print(expr) == [s |-> "Print", expr |-> expr]
Stmt_Let(name, initializer) == [s |-> "Let", name |-> name, initializer |-> initializer]
Stmt_Block(statements) == [s |-> "Block", statements |-> statements]
Stmt_If(condition, then, eelse) ==
    [s |-> "If", condition |-> condition, then |-> then, eelse |-> eelse]
Stmt_For(identifier, range, body) ==
    [s |-> "For", identifier |-> identifier, range |-> range, body |-> body]
Stmt_Function(name, params, body) ==
    [s |-> "Function", name |-> name, params |-> params, body |-> body]
Stmt_Return(keyword, expr) == [s |-> "Return", keyword |-> keyword, expr |-> expr]

(***************************************************************************)
(* Input programs of the tree-walking interpreter, as the parser builds    *)
(* them: a negative number is Unary(-, Literal).                           *)
(***************************************************************************)
Tk(kind, lexeme) == Token(kind, None, lexeme, 0, 0)
NumTok(n) == Token("NUMBER", n, ToString(n), 0, 0)
IdTok(name) == Token("IDENTIFIER", name, name, 0, 0)
Num(n) == IF n < 0 THEN Unary(Tk("MINUS", "-"), Literal(NumTok(0 - n))) ELSE Literal(NumTok(n))
Var(name) == Variable(IdTok(name))
CallOf(name, arguments) == Call(Var(name), Tk("LEFTPAREN", "("), arguments)
ReturnOf(expr) == Stmt_Return(Tk("RETURN", "return"), Some(expr))

\* let x = 1;
S_let_x == Stmt_Let(IdTok("x"), Num(1))
\* x = 2;
S_set_x == Stmt_Expression(Assign(IdTok("x"), Num(2)))
\* fun f() { return x; }
S_fun_f == Stmt_Function(IdTok("f"), <<>>, <<ReturnOf(Var("x"))>>)
\* fun g() { x = 3; }
S_fun_g == Stmt_Function(IdTok("g"), <<>>, <<Stmt_Expression(Assign(IdTok("x"), Num(3)))>>)
\* print f();
S_print_f == Stmt_Print(CallOf("f", <<>>))
\* g();
S_call_g == Stmt_Expression(CallOf("g", <<>>))
\* print x;
S_print_x == Stmt_Print(Var("x"))
\* return 7;
S_return == ReturnOf(Num(7))
\* fun h(n) { if n < 1 { return 0; } return h(n - 1) + 1; }
S_fun_h ==
    Stmt_Function(IdTok("h"), <<IdTok("n")>>,
        << Stmt_If(Binary(Tk("LESS", "<"), Var("n"), Num(1)),
                   Stmt_Block(<<ReturnOf(Num(0))>>), None),
           ReturnOf(Binary(Tk("PLUS", "+"),
                           CallOf("h", <<Binary(Tk("MINUS", "-"), Var("n"), Num(1))>>),
                           Num(1))) >>)
\* print h(1);
S_print_h == Stmt_Print(CallOf("h", <<Num(1)>>))

StatementPool ==
    {S_let_x, S_set_x, S_fun_f, S_fun_g, S_print_f, S_call_g, S_print_x, S_return,
     S_fun_h, S_print_h}

MaxProgramLen == 4
SeqsUpTo(S, n) == UNION {[1..k -> S] : k \in 0..n}

RangeToken == Token("DOTDOT", None, "..", 0, 11)
RangeEnds == 0..2
RangeSteps == -2..2
\* for i in from..step_by..to { print i; }
ForProgram(from, step_by, to) ==
    << Stmt_For(IdTok("i"), Range(RangeToken, Num(from), Some(Num(step_by)), Num(to)),
                Stmt_Block(<<Stmt_Print(Var("i"))>>)) >>
\* for i in from..to { print i; }
ForProgramNoStep(from, to) ==
    << Stmt_For(IdTok("i"), Range(RangeToken, Num(from), None, Num(to)),
                Stmt_Block(<<Stmt_Print(Var("i"))>>)) >>

ForPrograms ==
    {ForProgram(f, s, t) : f \in RangeEnds, s \in RangeSteps, t \in RangeEnds}
        \cup {ForProgramNoStep(f, t) : f \in RangeEnds, t \in RangeEnds}

LegPrograms == SeqsUpTo(StatementPool, MaxProgramLen) \cup ForPrograms

(***************************************************************************)
(* Interpreter::interpret as a machine: one step per visited statement     *)
(***************************************************************************)
\* Interpreter::new
Interpreter_new == [environment |-> create_global_environment, out |-> <<>>, now |-> Some(0)]

LegInit ==
    /\ EnvIdle
    /\ ParIdle
    /\ LexIdle
    /\ RunIdle
    /\ legStatements \in LegPrograms
    /\ legPc = 1
    /\ legSt = Interpreter_new
    /\ legResult = None

\* one iteration of `for statement in statements { self.visit_statement(..)?; }`
InterpretVisit ==
    /\ legResult = None
    /\ legPc <= Len(legStatements)
    /\ LET r == visit_statement(legSt, legStatements[legPc], MaxCallDepth)
       IN  /\ legSt' = r.st
           /\ IF r.ok
              THEN legPc' = legPc + 1 /\ legResult' = None
              ELSE /\ legPc' = legPc
                   /\ legResult' =
                        IF r.error.kind = "Diverge" THEN Some([tag |-> "Diverged"])
                        ELSE IF r.error.kind = "Panic" THEN Some([tag |-> "Panic"])
                        ELSE Some([tag |-> "Err", error |-> r.error])
    /\ UNCHANGED <<legStatements, notLegVars>>

\* the final Ok(()) of interpret
InterpretOk ==
    /\ legResult = None
    /\ legPc > Len(legStatements)
    /\ legResult' = Some([tag |-> "Ok"])
    /\ UNCHANGED <<legStatements, legPc, legSt, notLegVars>>

LegNext == InterpretVisit \/ InterpretOk

SpecLegacy == LegInit /\ [][LegNext]_vars

(***************************************************************************)
(* Claims about the tree-walking interpreter                               *)
(***************************************************************************)
ReturnedErr == legResult # None /\ legResult[1].tag = "Err"
\* the statement interpret visited last, when that visit returned Ok
JustVisitedOk(stmt) ==
    /\ legResult = None
    /\ legPc > 1
    /\ legStatements[legPc - 1] = stmt
\* decl was visited after the first `let x` and before the last visited statement
DeclaredWithXBound(decl) ==
    \E i, j \in 1..(legPc - 2) :
        /\ i < j
        /\ legStatements[i] = S_let_x
        /\ legStatements[j] = decl
DeclarableNames == {"f", "g", "h"}

\* C4: once `fun f` has executed, the environment captured in f's Function
\* value resolves f to that function, so a recursive call of f does not fail
\* with f undefined.
C4_ClosureResolvesOwnName ==
    /\ \A n \in DeclarableNames :
          LET fv == get(legSt.environment, n)
          IN  (fv # None /\ fv[1].t = "Function") =>
                LET own == get(fv[1].closure, fv[1].name.lexeme)
                IN  /\ own # None
                    /\ own[1].t = "Function"
                    /\ own[1].name = fv[1].name
                    /\ own[1].params = fv[1].params
                    /\ own[1].body = fv[1].body
    /\ ~(/\ ReturnedErr
         /\ legStatements[legPc] = S_print_h
         /\ \E j \in 1..(legPc - 1) : legStatements[j] = S_fun_h
         /\ legResult[1].error.kind = "Runtime"
         /\ legResult[1].error.errno.code = "R001"
         /\ legResult[1].error.token.lexeme = "h")

\* C5: closure and declaring scope share their bindings: a call of f (which
\* returns x) made after x was assigned yields the current x, and after a call
\* of g (which assigns x = 3) the caller's x is 3.
C5_ClosureSharesBindings ==
    /\ (JustVisitedOk(S_print_f) /\ DeclaredWithXBound(S_fun_f)) =>
            /\ get(legSt.environment, "x") # None
            /\ legSt.out # <<>>
            /\ legSt.out[Len(legSt.out)] = DisplayValue(get(legSt.environment, "x")[1])
    /\ (JustVisitedOk(S_call_g) /\ DeclaredWithXBound(S_fun_g)) =>
            get(legSt.environment, "x") = Some(Number(3))

\* C6: interpret never returns the control-flow signal of `return` as an error.
C6_ReturnNeverReported ==
    ReturnedErr => legResult[1].error.kind # "Return"

BadRange(from, step_by, to) ==
    \/ step_by = 0
    \/ step_by > 0 /\ to < from
    \/ step_by < 0 /\ from < to
ValidRange(from, step_by, to) ==
    \/ step_by > 0 /\ from < to
    \/ step_by < 0 /\ from > to
\* the values from, from+step_by, ... that lie strictly before `to`, as printed
RECURSIVE HalfOpenValues(_, _, _)
HalfOpenValues(cur, step_by, to) ==
    IF (step_by > 0 /\ cur < to) \/ (step_by < 0 /\ cur > to)
    THEN <<ToString(cur)>> \o HalfOpenValues(cur + step_by, step_by, to)
    ELSE <<>>
ForVisited == legPc > 1 \/ legResult # None

\* C7: a `for` over a range with step 0, or whose step sign contradicts the
\* order of from and to, returns RuntimeError R003 at the range token and never
\* runs the body.
C7_BadRangeIsRuntimeError ==
    \A f \in RangeEnds, s \in RangeSteps, t \in RangeEnds :
        (legStatements = ForProgram(f, s, t) /\ BadRange(f, s, t) /\ ForVisited) =>
            /\ legSt.out = <<>>
            /\ legResult = Some([tag |-> "Err",
                                 error |-> runtime_error(
                                    [code |-> "R003", from |-> f, to |-> t, step_by |-> s],
                                    RangeToken)])

\* C8: a `for` over a valid range runs the body once for from, from+step, ...
\* strictly before `to`, in that order, and then terminates.
C8_ValidRangeIterates ==
    \A f \in RangeEnds, s \in RangeSteps, t \in RangeEnds :
        (legStatements = ForProgram(f, s, t) /\ ValidRange(f, s, t) /\ ForVisited) =>
            /\ legSt.out = HalfOpenValues(f, s, t)
            /\ legResult \in {None, Some([tag |-> "Ok"])}

(***************************************************************************)
(* onoi: numbers (f64 restricted to exact fractions), tokens               *)
(***************************************************************************)
Abs(n) == IF n < 0 THEN -n ELSE n
RECURSIVE Gcd(_, _)
Gcd(a, b) == IF b = 0 THEN a ELSE Gcd(b, a % b)
\* the f64 with value n/d, d # 0, as a reduced fraction with positive denominator
F64(n, d) ==
    LET g == Gcd(Abs(n), Abs(d))
        sgn == IF d < 0 THEN -1 ELSE 1
    IN  [n |-> sgn * (n \div g), d |-> sgn * (d \div g)]
F64Add(a, b) == F64(a.n * b.d + b.n * a.d, a.d * b.d)
F64Sub(a, b) == F64(a.n * b.d - b.n * a.d, a.d * b.d)
F64Mul(a, b) == F64(a.n * b.n, a.d * b.d)
F64Div(a, b) == F64(a.n * b.d, a.d * b.n)
F64Neg(a) == [n |-> -a.n, d |-> a.d]
F64Less(a, b) == a.n * b.d < b.n * a.d

\* TokenKind: a variant name with the payload of STRING, NUMBER and IDENTIFIER
TokenKind(kind) == [kind |-> kind, payload |-> None]
TokenKindOf(kind, payload) == [kind |-> kind, payload |-> payload]
\* TokenKind::is_same
is_same(a, b) == a.kind = b.kind
\* Token::new
Token_new(kind, line, column, lexeme) ==
    [kind |-> kind.kind, payload |-> kind.payload, lexeme |-> lexeme,
     position |-> [line |-> line, column |-> column]]
\* an error number without fields (SyntaxError::S001, TypeError::T004, ...)
Errno(code) == [code |-> code]
\* Error::syntax_error / type_error / runtime_error of onoi
onoi_syntax_error(errno, token) == [kind |-> "Syntax", errno |-> errno, token |-> token]
onoi_type_error(errno, token) == [kind |-> "Type", errno |-> errno, token |-> token]
onoi_runtime_error(errno, token) == [kind |-> "Runtime", errno |-> errno, token |-> token]

(***************************************************************************)
(* onoi Lexer                                                              *)
(***************************************************************************)
Digits == {"0", "1", "2", "3", "4", "5", "6", "7", "8", "9"}
Letters ==
    {"a", "b", "c", "d", "e", "f", "g", "h", "i", "j", "k", "l", "m", "n", "o", "p", "q",
     "r", "s", "t", "u", "v", "w", "x", "y", "z",
     "A", "B", "C", "D", "E", "F", "G", "H", "I", "J", "K", "L", "M", "N", "O", "P", "Q",
     "R", "S", "T", "U", "V", "W", "X", "Y", "Z"}
is_digit(c) == c \in Digits
is_alpha(c) == c \in Letters \cup {"_"}
is_alpha_numeric(c) == is_digit(c) \/ is_alpha(c)
\* the "\0" that peek returns at the end of input
NUL == "NUL"

\* Lexer::new
Lexer_new ==
    [tokens |-> <<>>, graphemes |-> <<>>, start |-> 0, current |-> 0,
     line |-> 0, column_end |-> 0]

\* graphemes[from..to].join(""), 0-based and half-open as in the source
RECURSIVE Slice(_, _, _)
Slice(graphemes, from, to) ==
    IF from >= to THEN ""
    ELSE graphemes[from + 1] \o Slice(graphemes, from + 1, to)

Lexer_is_at_end(self) == self.current >= Len(self.graphemes)

Lexer_peek(self) ==
    IF self.current >= Len(self.graphemes) THEN NUL
    ELSE self.graphemes[self.current + 1]

peekpeek(self) ==
    IF self.current + 1 >= Len(self.graphemes) THEN NUL
    ELSE self.graphemes[self.current + 2]

\* Lexer::advance: the grapheme under the read head and the lexer after it
Lexer_advance(self) ==
    LET grapheme == Lexer_peek(self)
    IN  [grapheme |-> grapheme,
         self |-> [self EXCEPT !.current = @ + 1,
                               !.column_end = IF grapheme = "\n" THEN 0 ELSE @ + 1,
                               !.line = IF grapheme = "\n" THEN @ + 1 ELSE @]]

\* Lexer::is_next
is_next(self, expected) ==
    IF Lexer_is_at_end(self) THEN [matched |-> FALSE, self |-> self]
    ELSE IF self.graphemes[self.current + 1] # expected THEN [matched |-> FALSE, self |-> self]
    ELSE [matched |-> TRUE, self |-> Lexer_advance(self).self]

\* what a scan step returns: status "ok", "err" (with error), "panic" or "diverge"
Scanned(status, self, error) == [status |-> status, self |-> self, error |-> error]

\* usize a - b: panics when overflow checks are on and the difference is negative;
\* otherwise a negative result stands for the wrapped value a - b + 2^64
usize_sub(a, b, checks) ==
    IF a < b /\ checks THEN [panic |-> TRUE, value |-> 0]
    ELSE [panic |-> FALSE, value |-> a - b]

\* add_token whose lexeme starts one grapheme late
add_token_lexeme_from_second(self, kind, checks) ==
    LET column == usize_sub(self.column_end, self.current - self.start, checks)
    IN  IF column.panic THEN Scanned("panic", self, None)
        ELSE Scanned("ok",
                [self EXCEPT !.tokens = Append(@,
                    Token_new(kind, self.line, column.value,
                              Slice(self.graphemes, self.start + 1, self.current)))],
                None)

\* Lexer::add_token
add_token(self, kind, checks) ==
    LET column == usize_sub(self.column_end, self.current - self.start, checks)
    IN  IF column.panic THEN Scanned("panic", self, None)
        ELSE Scanned("ok",
                [self EXCEPT !.tokens = Append(@,
                    Token_new(kind, self.line, column.value,
                              Slice(self.graphemes, self.start, self.current)))],
                None)

\* Lexer::string
RECURSIVE string_scan(_)
string_scan(self) ==
    IF Lexer_peek(self) # "\"" /\ ~Lexer_is_at_end(self)
    THEN string_scan(Lexer_advance(self).self)
    ELSE self
Lexer_string_anchored_at_end(self, checks) ==
    LET scanned == string_scan(self)
    IN  IF Lexer_is_at_end(scanned)
        THEN Scanned("err", scanned,
                onoi_syntax_error(Errno("S002"),
                    Token_new(TokenKind("UNKNOWN"), scanned.line, scanned.column_end, "\"")))
        ELSE LET closed == Lexer_advance(scanned).self
                 value == Slice(closed.graphemes, closed.start + 1, closed.current - 1)
             IN  add_token(closed, TokenKindOf("STRING", value), checks)
Lexer_string(self, checks) ==
    LET opening_row == self.line
        opening_column == self.column_end - 1
        scanned == string_scan(self)
    IN  IF Lexer_is_at_end(scanned)
        THEN Scanned("err", scanned,
                onoi_syntax_error(Errno("S002"),
                    Token_new(TokenKind("UNKNOWN"), opening_row, opening_column, "\"")))
        ELSE LET closed == Lexer_advance(scanned).self
                 value == Slice(closed.graphemes, closed.start + 1, closed.current - 1)
             IN  add_token(closed, TokenKindOf("STRING", value), checks)

DigitValue(c) ==
    CASE c = "0" -> 0 [] c = "1" -> 1 [] c = "2" -> 2 [] c = "3" -> 3 [] c = "4" -> 4
      [] c = "5" -> 5 [] c = "6" -> 6 [] c = "7" -> 7 [] c = "8" -> 8 [] c = "9" -> 9
\* str::parse::<f64> on digits with an optional fraction
RECURSIVE parse_f64(_, _, _, _, _, _)
parse_f64(graphemes, from, to, n, d, in_fraction) ==
    IF from >= to THEN F64(n, d)
    ELSE LET c == graphemes[from + 1]
         IN  IF c = "." THEN parse_f64(graphemes, from + 1, to, n, d, TRUE)
             ELSE parse_f64(graphemes, from + 1, to, n * 10 + DigitValue(c),
                            IF in_fraction THEN d * 10 ELSE d, in_fraction)

\* Lexer::number
RECURSIVE digits_scan(_)
digits_scan(self) ==
    IF is_digit(Lexer_peek(self)) THEN digits_scan(Lexer_advance(self).self) ELSE self
Lexer_number(self, checks) ==
    LET whole == digits_scan(self)
        all == IF Lexer_peek(whole) = "." /\ is_digit(peekpeek(whole))
               THEN digits_scan(Lexer_advance(whole).self)
               ELSE whole
    IN  add_token(all,
            TokenKindOf("NUMBER", parse_f64(all.graphemes, all.start, all.current, 0, 1, FALSE)),
            checks)

\* Lexer::keyword
RECURSIVE word_scan(_)
word_scan(self) ==
    IF is_alpha_numeric(Lexer_peek(self)) THEN word_scan(Lexer_advance(self).self) ELSE self
Lexer_keyword(self, checks) ==
    LET word == word_scan(self)
        lexeme == Slice(word.graphemes, word.start, word.current)
        token == CASE lexeme = "and" -> TokenKind("AND")
                   [] lexeme = "false" -> TokenKind("FALSE")
                   [] lexeme = "or" -> TokenKind("OR")
                   [] lexeme = "true" -> TokenKind("TRUE")
                   [] lexeme = "let" -> TokenKind("LET")
                   [] lexeme = "string" -> TokenKind("STRINGKW")
                   [] lexeme = "number" -> TokenKind("NUMBERKW")
                   [] lexeme = "bool" -> TokenKind("BOOL")
                   [] OTHER -> TokenKindOf("IDENTIFIER", lexeme)
    IN  add_token(word, token, checks)

\* how far past the end of input the comment loop is followed before it is
\* reported as never ending
MaxOverrun == 2
\* the `#` arm of scan_token: loop { if self.advance() == "\n" { break; } }
RECURSIVE comment_loop(_)
comment_loop(self) ==
    LET a == Lexer_advance(self)
    IN  IF a.grapheme = "\n" THEN Scanned("ok", a.self, None)
        ELSE IF a.self.current >= Len(a.self.graphemes) + MaxOverrun
        THEN Scanned("diverge", a.self, None)
        ELSE comment_loop(a.self)

\* the two-grapheme operators of scan_token
one_or_two(self, second, two, one, checks) ==
    LET n == is_next(self, second)
    IN  IF n.matched THEN add_token(n.self, TokenKind(two), checks)
        ELSE add_token(n.self, TokenKind(one), checks)

\* Lexer::scan_token
scan_token(self, checks) ==
    LET a == Lexer_advance(self)
        c == a.grapheme
        s == a.self
    IN  CASE c \in {"\n", " ", "\t"} -> Scanned("ok", s, None)
          [] c = "(" -> add_token(s, TokenKind("LEFTPAREN"), checks)
          [] c = ")" -> add_token(s, TokenKind("RIGHTPAREN"), checks)
          [] c = "[" -> add_token(s, TokenKind("LEFTBRACKET"), checks)
          [] c = "]" -> add_token(s, TokenKind("RIGHTBRACKET"), checks)
          [] c = "{" -> add_token(s, TokenKind("LEFTBRACE"), checks)
          [] c = "}" -> add_token(s, TokenKind("RIGHTBRACE"), checks)
          [] c = "-" -> add_token(s, TokenKind("MINUS"), checks)
          [] c = "+" -> add_token(s, TokenKind("PLUS"), checks)
          [] c = "*" -> add_token(s, TokenKind("STAR"), checks)
          [] c = "/" -> add_token(s, TokenKind("SLASH"), checks)
          [] c = "," -> add_token(s, TokenKind("COMMA"), checks)
          [] c = ":" -> add_token(s, TokenKind("COLON"), checks)
          [] c = ";" -> add_token(s, TokenKind("SEMICOLON"), checks)
          [] c = "!" -> one_or_two(s, "=", "BANGEQUAL", "BANG", checks)
          [] c = "=" -> one_or_two(s, "=", "EQUALEQUAL", "EQUAL", checks)
          [] c = "<" -> one_or_two(s, "=", "LESSEQUAL", "LESS", checks)
          [] c = ">" -> one_or_two(s, "=", "GREATEREQUAL", "GREATER", checks)
          [] c = "#" -> comment_loop(s)
          [] c = "\"" -> Lexer_string(s, checks)
          [] is_digit(c) -> Lexer_number(s, checks)
          [] is_alpha(c) -> Lexer_keyword(s, checks)
          [] OTHER ->
                LET column == usize_sub(s.column_end, s.current - s.start, checks)
                IN  IF column.panic THEN Scanned("panic", s, None)
                    ELSE Scanned("err", s,
                            onoi_syntax_error(Errno("S001"),
                                Token_new(TokenKind("UNKNOWN"), s.line, column.value, c)))

\* one iteration of the while loop of tokenize
tokenize_iteration(self, checks) ==
    scan_token([self EXCEPT !.start = self.current], checks)

\* the rest of tokenize after the loop: EOF token, state reset, the result
tokenize_finish_without_eof(self, errors) ==
    [self |-> Lexer_new,
     result |-> IF Len(errors) > 0
                THEN [ok |-> FALSE, errors |-> errors]
                ELSE [ok |-> TRUE, value |-> self.tokens]]
tokenize_finish(self, errors) ==
    LET tokens == Append(self.tokens,
                         Token_new(TokenKind("EOF"), self.line + 1, 0, "\n"))
    IN  [self |-> Lexer_new,
         result |-> IF Len(errors) > 0
                    THEN [ok |-> FALSE, errors |-> errors]
                    ELSE [ok |-> TRUE, value |-> tokens]]

\* Lexer::tokenize as one call; status "returned", "diverge" or "panic"
RECURSIVE tokenize_loop(_, _, _)
tokenize_loop(self, errors, checks) ==
    IF Lexer_is_at_end(self)
    THEN LET f == tokenize_finish(self, errors)
         IN  [status |-> "returned", self |-> f.self, result |-> f.result]
    ELSE LET r == tokenize_iteration(self, checks)
         IN  CASE r.status = "ok" -> tokenize_loop(r.self, errors, checks)
               [] r.status = "err" -> tokenize_loop(r.self, Append(errors, r.error), checks)
               [] OTHER -> [status |-> r.status, self |-> r.self, result |-> None]
tokenize(self, src, checks) ==
    tokenize_loop([self EXCEPT !.graphemes = src], <<>>, checks)

(***************************************************************************)
(* Lexer::tokenize as a machine: one step per iteration of its while loop  *)
(***************************************************************************)
MaxSrcLen == 4
LexAlphabet == {"#", "\n", "\"", "1", ".", "a", "@"}
LexSources == SeqsUpTo(LexAlphabet, MaxSrcLen)

LexInit ==
    /\ EnvIdle
    /\ ParIdle
    /\ LegIdle
    /\ RunIdle
    /\ overflow_checks \in BOOLEAN
    /\ lexSrc = <<>>
    /\ lexer = Lexer_new
    /\ lexErrors = <<>>
    /\ lexPc = "new"
    /\ lexResult = None

\* tokenize up to its while loop
TokenizeBegin ==
    /\ lexPc = "new"
    /\ \E src \in LexSources :
        /\ lexSrc' = src
        /\ lexer' = [lexer EXCEPT !.graphemes = src]
    /\ lexErrors' = <<>>
    /\ lexPc' = "scan"
    /\ UNCHANGED <<overflow_checks, lexResult, notLexVars>>

\* self.start = self.current; if let Err(error) = self.scan_token() { errors.push(error) }
TokenizeScan ==
    /\ lexPc = "scan"
    /\ ~Lexer_is_at_end(lexer)
    /\ LET r == tokenize_iteration(lexer, overflow_checks)
       IN  /\ lexer' = r.self
           /\ lexErrors' = IF r.status = "err" THEN Append(lexErrors, r.error) ELSE lexErrors
           /\ lexPc' = CASE r.status = "diverge" -> "diverged"
                         [] r.status = "panic" -> "panicked"
                         [] OTHER -> "scan"
    /\ UNCHANGED <<overflow_checks, lexSrc, lexResult, notLexVars>>

TokenizeFinish ==
    /\ lexPc = "scan"
    /\ Lexer_is_at_end(lexer)
    /\ LET f == tokenize_finish(lexer, lexErrors)
       IN  /\ lexer' = f.self
           /\ lexResult' = Some(f.result)
    /\ lexPc' = "done"
    /\ UNCHANGED <<overflow_checks, lexSrc, lexErrors, notLexVars>>

LexNext == TokenizeBegin \/ TokenizeScan \/ TokenizeFinish

SpecLex == LexInit /\ [][LexNext]_vars

\* C3: tokenize terminates on every finite source: each iteration of its loop
\* moves the read head forward and never past the end of the input (also when
\* the source ends inside a string or inside a `#` comment), and the call ends
\* by appending the EOF token.  An overflow panic of the column arithmetic is
\* not counted against termination here.
C3_TokenizeTerminates ==
    [][lexPc = "scan" =>
        \/ /\ lexPc' = "scan"
           /\ lexer'.current > lexer.current
           /\ lexer'.current <= Len(lexSrc)
        \/ /\ lexPc' = "done"
           /\ lexResult' # None
           /\ lexResult'[1].ok =>
                lexResult'[1].value[Len(lexResult'[1].value)].kind = "EOF"
        \/ lexPc' = "panicked"]_vars

(***************************************************************************)
(* onoi: Type, Expr, Stmt                                                  *)
(***************************************************************************)
Type_Text == [t |-> "Text"]
Type_Number == [t |-> "Number"]
Type_Bool == [t |-> "Bool"]
Type_Tuple(inners) == [t |-> "Tuple", inners |-> inners]

Expr_Literal(value) == [e |-> "Literal", value |-> value]
Expr_Tuple(inners) == [e |-> "Tuple", inners |-> inners]
Expr_Unary(operator, expr) == [e |-> "Unary", operator |-> operator, expr |-> expr]
Expr_Binary(operator, left, right) ==
    [e |-> "Binary", operator |-> operator, left |-> left, right |-> right]
Expr_Logical(operator, left, right) ==
    [e |-> "Logical", operator |-> operator, left |-> left, right |-> right]
Expr_Group(expr) == [e |-> "Group", expr |-> expr]
Expr_Variable(name) == [e |-> "Variable", name |-> name]
Expr_Assign(name, expr) == [e |-> "Assign", name |-> name, expr |-> expr]
Expr_Block(statements, finally) ==
    [e |-> "Block", statements |-> statements, finally |-> finally]

onoi_Stmt_Expression(expr) == [s |-> "Expression", expr |-> expr]
onoi_Stmt_Let(name, ttype, initializer) ==
    [s |-> "Let", name |-> name, ttype |-> ttype, initializer |-> initializer]

(***************************************************************************)
(* onoi Parser                                                             *)
(***************************************************************************)
\* Parser::new
Parser_new == [tokens |-> <<>>, current |-> 0]

\* what a parsing method returns: status "ok" (value), "err" (value is the Error)
Parsed(status, self, value) == [status |-> status, self |-> self, value |-> value]

previous(self) == self.tokens[Max(self.current, 1)]
Parser_peek(self) == self.tokens[self.current + 1]
Parser_advance(self) == [self EXCEPT !.current = @ + 1]
Parser_is_at_end(self) == Parser_peek(self).kind = "EOF"
Parser_check(self, kind) ==
    IF Parser_is_at_end(self) THEN FALSE ELSE Parser_peek(self).kind = kind
\* Parser::consume: the parser afterwards and whether a token was consumed
consume(self, kind) ==
    IF Parser_check(self, kind) THEN [some |-> TRUE, self |-> Parser_advance(self)]
    ELSE [some |-> FALSE, self |-> self]
\* Parser::is_token_of_kind
RECURSIVE is_token_of_kind(_, _)
is_token_of_kind(self, kinds) ==
    IF kinds = <<>> THEN [matched |-> FALSE, self |-> self]
    ELSE IF Parser_check(self, Head(kinds)) THEN [matched |-> TRUE, self |-> Parser_advance(self)]
    ELSE is_token_of_kind(self, Tail(kinds))

\* a synchronize that discards no token
synchronize_staying(self) == self

\* Parser::synchronize
RECURSIVE synchronize(_)
synchronize(self) ==
    IF Parser_is_at_end(self) THEN self
    ELSE IF Parser_peek(self).kind = "SEMICOLON" THEN Parser_advance(self)
    ELSE synchronize(Parser_advance(self))

\* A method body is split where it binds the result of a call: the operator
\* named after the method makes the call and hands the result on to the
\* operator that holds the rest of the body.

\* Parser::ttype and Parser::tuple_type
RECURSIVE ttype(_), tuple_type(_), tuple_type_first(_, _), tuple_type_rest(_, _, _)
RECURSIVE tuple_type_next(_, _, _), tuple_type_close(_, _, _, _)
ttype_of(self, kind, type, otherwise) ==
    IF Parser_check(self, kind) THEN Parsed("ok", Parser_advance(self), type) ELSE otherwise
ttype(self) ==
    ttype_of(self, "BOOL", Type_Bool,
      ttype_of(self, "NUMBERKW", Type_Number,
        ttype_of(self, "STRINGKW", Type_Text,
          IF Parser_check(self, "LEFTPAREN") THEN tuple_type(Parser_advance(self))
          ELSE Parsed("err", self, onoi_syntax_error(Errno("S006"), previous(self))))))
tuple_type(self) ==
    IF Parser_check(self, "RIGHTPAREN")
    THEN Parsed("ok", Parser_advance(self), Type_Tuple(<<>>))
    ELSE tuple_type_first(ttype(self), previous(self))
tuple_type_first(first, opening_token) ==
    IF first.status # "ok" THEN first
    ELSE tuple_type_rest(first.self, <<first.value>>, opening_token)
tuple_type_rest(self, inners, opening_token) ==
    IF Parser_check(self, "COMMA")
    THEN tuple_type_next(ttype(Parser_advance(self)), inners, opening_token)
    ELSE tuple_type_close(consume(self, "RIGHTPAREN"), self, inners, opening_token)
tuple_type_next(next, inners, opening_token) ==
    IF next.status # "ok" THEN next
    ELSE tuple_type_rest(next.self, Append(inners, next.value), opening_token)
tuple_type_close(close, self, inners, opening_token) ==
    IF ~close.some THEN Parsed("err", self, onoi_syntax_error(Errno("S003"), opening_token))
    ELSE Parsed("ok", close.self, Type_Tuple(inners))

\* the token kinds each binary tier of the grammar loops on, in the order tested
TierKinds_term_factor_swapped(tier) ==
    CASE tier = "logic_or" -> <<"OR">>
      [] tier = "logic_and" -> <<"AND">>
      [] tier = "equality" -> <<"BANGEQUAL", "EQUALEQUAL">>
      [] tier = "comparison" -> <<"LESS", "LESSEQUAL", "GREATER", "GREATEREQUAL">>
      [] tier = "term" -> <<"SLASH", "STAR">>
      [] tier = "factor" -> <<"MINUS", "PLUS">>
TierKinds(tier) ==
    CASE tier = "logic_or" -> <<"OR">>
      [] tier = "logic_and" -> <<"AND">>
      [] tier = "equality" -> <<"BANGEQUAL", "EQUALEQUAL">>
      [] tier = "comparison" -> <<"LESS", "LESSEQUAL", "GREATER", "GREATEREQUAL">>
      [] tier = "term" -> <<"MINUS", "PLUS">>
      [] tier = "factor" -> <<"SLASH", "STAR">>
\* the tier whose method a tier calls for its operands
TierBelow(tier) ==
    CASE tier = "logic_or" -> "logic_and"
      [] tier = "logic_and" -> "equality"
      [] tier = "equality" -> "comparison"
      [] tier = "comparison" -> "term"
      [] tier = "term" -> "factor"
      [] tier = "factor" -> "unary"
\* the node a tier builds
TierNode(tier, operator, left, right) ==
    IF tier \in {"logic_or", "logic_and"} THEN Expr_Logical(operator, left, right)
    ELSE Expr_Binary(operator, left, right)

RECURSIVE expression(_), assigment(_), assigment_target(_), assigment_value(_, _, _)
RECURSIVE tier_parse(_, _), tier_first(_, _), tier_loop(_, _, _), tier_matched(_, _, _, _)
RECURSIVE tier_right(_, _, _, _)
RECURSIVE Parser_unary(_), unary_matched(_, _), unary_operand(_, _)
RECURSIVE primary(_), primary_literal(_, _), tuple(_), tuple_first(_, _), tuple_rest(_, _, _)
RECURSIVE tuple_next(_, _, _), tuple_close(_, _, _, _)

\* logic_or, logic_and, equality, comparison, term and factor share one shape:
\*   let mut expr = operand()?;
\*   while self.is_token_of_kind(kinds) {
\*       expr = Node { operator: self.previous(), left: expr, right: operand()? } }
tier_parse(self, tier) ==
    IF tier = "unary" THEN Parser_unary(self)
    ELSE tier_first(tier_parse(self, TierBelow(tier)), tier)
tier_first(first, tier) ==
    IF first.status # "ok" THEN first ELSE tier_loop(first.self, tier, first.value)
tier_loop(self, tier, expr) ==
    tier_matched(is_token_of_kind(self, TierKinds(tier)), self, tier, expr)
tier_matched(m, self, tier, expr) ==
    IF ~m.matched THEN Parsed("ok", self, expr)
    ELSE tier_right(tier_parse(m.self, TierBelow(tier)), previous(m.self), tier, expr)
tier_right(right, operator, tier, expr) ==
    IF right.status # "ok" THEN right
    ELSE tier_loop(right.self, tier, TierNode(tier, operator, expr, right.value))
logic_or(self) == tier_parse(self, "logic_or")
logic_and(self) == tier_parse(self, "logic_and")
equality(self) == tier_parse(self, "equality")
comparison(self) == tier_parse(self, "comparison")
term(self) == tier_parse(self, "term")
factor(self) == tier_parse(self, "factor")

\* Parser::unary
Parser_unary(self) == unary_matched(is_token_of_kind(self, <<"BANG", "MINUS">>), self)
unary_matched(m, self) ==
    IF m.matched THEN unary_operand(Parser_unary(m.self), previous(m.self))
    ELSE primary(self)
unary_operand(operand, operator) ==
    IF operand.status # "ok" THEN operand
    ELSE Parsed("ok", operand.self, Expr_Unary(operator, operand.value))

\* Parser::primary
primary(self) ==
    primary_literal(is_token_of_kind(self, <<"FALSE", "TRUE", "NUMBER", "STRING">>), self)
primary_literal(lit, self) ==
    IF lit.matched THEN Parsed("ok", lit.self, Expr_Literal(previous(lit.self)))
    ELSE IF Parser_check(self, "IDENTIFIER")
    THEN Parsed("ok", Parser_advance(self), Expr_Variable(previous(Parser_advance(self))))
    ELSE IF Parser_check(self, "LEFTPAREN") THEN tuple(Parser_advance(self))
    ELSE Parsed("err", self, onoi_syntax_error(Errno("S004"), previous(self)))

\* Parser::tuple
tuple(self) ==
    IF Parser_check(self, "RIGHTPAREN")
    THEN Parsed("ok", Parser_advance(self), Expr_Tuple(<<>>))
    ELSE tuple_first(expression(self), previous(self))
tuple_first(first, opening_token) ==
    IF first.status # "ok" THEN first
    ELSE tuple_rest(first.self, <<first.value>>, opening_token)
tuple_rest(self, inners, opening_token) ==
    IF Parser_check(self, "COMMA")
    THEN tuple_next(expression(Parser_advance(self)), inners, opening_token)
    ELSE tuple_close(consume(self, "RIGHTPAREN"), self, inners, opening_token)
tuple_next(next, inners, opening_token) ==
    IF next.status # "ok" THEN next
    ELSE tuple_rest(next.self, Append(inners, next.value), opening_token)
tuple_close_always_tuple(close, self, inners, opening_token) ==
    IF ~close.some THEN Parsed("err", self, onoi_syntax_error(Errno("S003"), opening_token))
    ELSE Parsed("ok", close.self, Expr_Tuple(inners))
tuple_close(close, self, inners, opening_token) ==
    IF ~close.some THEN Parsed("err", self, onoi_syntax_error(Errno("S003"), opening_token))
    ELSE IF Len(inners) = 1 THEN Parsed("ok", close.self, Expr_Group(inners[1]))
    ELSE Parsed("ok", close.self, Expr_Tuple(inners))

\* Parser::assigment
assigment(self) == assigment_target(logic_or(self))
assigment_target(target) ==
    IF target.status # "ok" THEN target
    ELSE IF ~Parser_check(target.self, "EQUAL") THEN target
    ELSE assigment_value(assigment(Parser_advance(target.self)),
                         previous(Parser_advance(target.self)), target.value)
assigment_value(value, equals, target) ==
    IF value.status # "ok" THEN value
    ELSE IF target.e = "Variable"
    THEN Parsed("ok", value.self, Expr_Assign(target.name, value.value))
    ELSE Parsed("err", value.self, onoi_syntax_error(Errno("S009"), equals))

\* Parser::expression
expression(self) == assigment(self)

\* Parser::let_declaration, entered after `let` was consumed, in the order of
\* its steps: the name, the optional type, `=`, the initializer, `;`
S005(expected) == [code |-> "S005", expected |-> expected]
let_semicolon(initializer, name, declared) ==
    IF initializer.status # "ok" THEN initializer
    ELSE IF Parser_check(initializer.self, "SEMICOLON")
    THEN Parsed("ok", Parser_advance(initializer.self),
                onoi_Stmt_Let(name, declared, initializer.value))
    ELSE Parsed("err", initializer.self,
                onoi_syntax_error(S005("SEMICOLON"), previous(initializer.self)))
let_equal(self, name, declared) ==
    IF ~Parser_check(self, "EQUAL")
    THEN Parsed("err", self, onoi_syntax_error(Errno("S008"), name))
    ELSE let_semicolon(expression(Parser_advance(self)), name, declared)
let_annotation(annotation, name) ==
    IF annotation.status # "ok" THEN annotation
    ELSE let_equal(annotation.self, name, Some(annotation.value))
let_type(self, name) ==
    IF ~Parser_check(self, "COLON") THEN let_equal(self, name, None)
    ELSE let_annotation(ttype(Parser_advance(self)), name)
let_declaration(self) ==
    IF ~Parser_check(self, "IDENTIFIER")
    THEN Parsed("err", self, onoi_syntax_error(Errno("S007"), previous(self)))
    ELSE let_type(Parser_advance(self), previous(Parser_advance(self)))

\* Parser::expression_statement
expression_semicolon(expr) ==
    IF expr.status # "ok" THEN expr
    ELSE IF ~Parser_check(expr.self, "SEMICOLON")
    THEN Parsed("err", expr.self,
                onoi_syntax_error(S005("SEMICOLON"), previous(expr.self)))
    ELSE Parsed("ok", Parser_advance(expr.self), onoi_Stmt_Expression(expr.value))
expression_statement(self) == expression_semicolon(expression(self))

\* Parser::statement
statement(self) == expression_statement(self)

\* Parser::declaration
declaration(self) ==
    IF Parser_check(self, "LET") THEN let_declaration(Parser_advance(self))
    ELSE statement(self)

\* one iteration of the while loop of parse: the declaration, and on Err the
\* call of synchronize
declared_or_synchronized(d) ==
    IF d.status = "ok" THEN d ELSE Parsed("err", synchronize(d.self), d.value)
parse_iteration(self) == declared_or_synchronized(declaration(self))

\* the result of parse
parse_result(errors, statements) ==
    IF Len(errors) > 0 THEN [ok |-> FALSE, errors |-> errors]
    ELSE [ok |-> TRUE, value |-> statements]

\* Parser::parse after `self.tokens = tokens`; peek panics when the cursor is
\* not an index of the token list
RECURSIVE parse_loop(_, _, _), parse_loop_next(_, _, _)
parse_loop(self, errors, statements) ==
    IF self.current >= Len(self.tokens)
    THEN [status |-> "panic", self |-> self, result |-> None]
    ELSE IF Parser_is_at_end(self)
    THEN [status |-> "returned", self |-> self, result |-> parse_result(errors, statements)]
    ELSE parse_loop_next(parse_iteration(self), errors, statements)
parse_loop_next(r, errors, statements) ==
    IF r.status = "ok"
    THEN parse_loop(r.self, errors, Append(statements, r.value))
    ELSE parse_loop(r.self, Append(errors, r.value), statements)
parse(self, tokens) ==
    parse_loop([self EXCEPT !.tokens = tokens], <<>>, <<>>)

(***************************************************************************)
(* onoi Typechecker                                                        *)
(***************************************************************************)
\* impl From<&Token> for Type
TypeFromToken(token) ==
    CASE token.kind = "NUMBER" -> Type_Number
      [] token.kind = "STRING" -> Type_Text
      [] token.kind \in {"FALSE", "TRUE"} -> Type_Bool
      [] OTHER -> Type_Tuple(<<>>)

\* Typechecker::new
Typechecker_new == [scope |-> new]

\* what a visit returns: status "ok" (value), "err" (value is the Error) or
\* "panic" (language_error, value is its message), and the Typechecker afterwards
Checked(status, self, value) == [status |-> status, self |-> self, value |-> value]
\* error::language_error
language_error(self, message) == Checked("panic", self, message)

T001(left, right) == [code |-> "T001", left |-> left, right |-> right]
T002(operand) == [code |-> "T002", operand |-> operand]
T003(declared_as, initialized_as) ==
    [code |-> "T003", declared_as |-> declared_as, initialized_as |-> initialized_as]
T005(declared_as, assigned_to) ==
    [code |-> "T005", declared_as |-> declared_as, assigned_to |-> assigned_to]

\* the Binary arm with `==` and `!=` accepting operands of any two types
Typechecker_binary_loose_equality(self, operator, left, right) ==
    CASE operator.kind = "PLUS" ->
            IF left = Type_Number /\ right = Type_Number THEN Checked("ok", self, Type_Number)
            ELSE IF left = Type_Text /\ right = Type_Text THEN Checked("ok", self, Type_Text)
            ELSE Checked("err", self, onoi_type_error(T001(left, right), operator))
      [] operator.kind \in {"MINUS", "STAR", "SLASH"} ->
            IF left # Type_Number \/ right # Type_Number
            THEN Checked("err", self, onoi_type_error(T001(left, right), operator))
            ELSE Checked("ok", self, Type_Number)
      [] operator.kind \in {"LESS", "LESSEQUAL", "GREATER", "GREATEREQUAL"} ->
            IF left # Type_Number \/ right # Type_Number
            THEN Checked("err", self, onoi_type_error(T001(left, right), operator))
            ELSE Checked("ok", self, Type_Bool)
      [] operator.kind \in {"EQUALEQUAL", "BANGEQUAL"} -> Checked("ok", self, Type_Bool)
      [] OTHER -> language_error(self, "unknown binary operator")
\* the Binary arm of Typechecker::visit_expression once both operand types are known
Typechecker_binary(self, operator, left, right) ==
    CASE operator.kind = "PLUS" ->
            IF left = Type_Number /\ right = Type_Number THEN Checked("ok", self, Type_Number)
            ELSE IF left = Type_Text /\ right = Type_Text THEN Checked("ok", self, Type_Text)
            ELSE Checked("err", self, onoi_type_error(T001(left, right), operator))
      [] operator.kind \in {"MINUS", "STAR", "SLASH"} ->
            IF left # Type_Number \/ right # Type_Number
            THEN Checked("err", self, onoi_type_error(T001(left, right), operator))
            ELSE Checked("ok", self, Type_Number)
      [] operator.kind \in {"LESS", "LESSEQUAL", "GREATER", "GREATEREQUAL"} ->
            IF left # Type_Number \/ right # Type_Number
            THEN Checked("err", self, onoi_type_error(T001(left, right), operator))
            ELSE Checked("ok", self, Type_Bool)
      [] operator.kind \in {"EQUALEQUAL", "BANGEQUAL"} ->
            IF left # right
            THEN Checked("err", self, onoi_type_error(T001(left, right), operator))
            ELSE Checked("ok", self, Type_Bool)
      [] OTHER -> language_error(self, "unknown binary operator")

\* the Unary arm once the operand type is known
Typechecker_unary(self, operator, operand) ==
    CASE operator.kind = "BANG" ->
            IF operand = Type_Bool THEN Checked("ok", self, Type_Bool)
            ELSE Checked("err", self, onoi_type_error(T002(operand), operator))
      [] operator.kind = "MINUS" ->
            IF operand = Type_Number THEN Checked("ok", self, Type_Number)
            ELSE Checked("err", self, onoi_type_error(T002(operand), operator))
      [] OTHER -> language_error(self, "unknown unary operator")

RECURSIVE Typechecker_visit_expression(_, _), Typechecker_visit_statement(_, _)
RECURSIVE Typechecker_tuple(_, _, _), Typechecker_block(_, _, _)

\* inners.iter().map(|expr| self.visit_expression(expr)).collect::<Result<..>>()
Typechecker_tuple(self, inners, types) ==
    IF inners = <<>> THEN Checked("ok", self, Type_Tuple(types))
    ELSE LET r == Typechecker_visit_expression(self, Head(inners))
         IN  IF r.status # "ok" THEN r
             ELSE Typechecker_tuple(r.self, Tail(inners), Append(types, r.value))

\* for stmt in statements { self.visit_statement(stmt)?; }
Typechecker_block(self, statements, i) ==
    IF i > Len(statements) THEN Checked("ok", self, None)
    ELSE LET r == Typechecker_visit_statement(self, statements[i])
         IN  IF r.status # "ok" THEN r
             ELSE Typechecker_block(r.self, statements, i + 1)

\* Typechecker::visit_expression
Typechecker_visit_expression(self, e) ==
    CASE e.e = "Literal" -> Checked("ok", self, TypeFromToken(e.value))
      [] e.e = "Group" -> Typechecker_visit_expression(self, e.expr)
      [] e.e = "Tuple" -> Typechecker_tuple(self, e.inners, <<>>)
      [] e.e = "Logical" ->
            LET l == Typechecker_visit_expression(self, e.left)
            IN  IF l.status # "ok" THEN l
                ELSE LET r == Typechecker_visit_expression(l.self, e.right)
                     IN  IF r.status # "ok" THEN r
                         ELSE IF l.value = Type_Bool /\ r.value = Type_Bool
                         THEN Checked("ok", r.self, Type_Bool)
                         ELSE Checked("err", r.self,
                                onoi_type_error(T001(l.value, r.value), e.operator))
      [] e.e = "Unary" ->
            LET operand == Typechecker_visit_expression(self, e.expr)
            IN  IF operand.status # "ok" THEN operand
                ELSE Typechecker_unary(operand.self, e.operator, operand.value)
      [] e.e = "Binary" ->
            LET l == Typechecker_visit_expression(self, e.left)
            IN  IF l.status # "ok" THEN l
                ELSE LET r == Typechecker_visit_expression(l.self, e.right)
                     IN  IF r.status # "ok" THEN r
                         ELSE Typechecker_binary(r.self, e.operator, l.value, r.value)
      [] e.e = "Variable" ->
            LET found == get(self.scope, e.name.lexeme)
            IN  IF found # None THEN Checked("ok", self, found[1])
                ELSE Checked("err", self, onoi_type_error(Errno("T004"), e.name))
      [] e.e = "Assign" ->
            LET assigned_to == Typechecker_visit_expression(self, e.expr)
            IN  IF assigned_to.status # "ok" THEN assigned_to
                ELSE LET declared_as == get(assigned_to.self.scope, e.name.lexeme)
                     IN  IF declared_as # None
                         THEN IF declared_as[1] # assigned_to.value
                              THEN Checked("err", assigned_to.self,
                                     onoi_type_error(T005(declared_as[1], assigned_to.value),
                                                     e.name))
                              ELSE assigned_to
                         ELSE Checked("err", assigned_to.self,
                                      onoi_type_error(Errno("T004"), e.name))
      [] e.e = "Block" ->
            LET nested == [self EXCEPT !.scope = new_nested(self.scope)]
                body == Typechecker_block(nested, e.statements, 1)
            IN  IF body.status # "ok" THEN body
                ELSE LET val == IF e.finally # None
                                THEN Typechecker_visit_expression(body.self, e.finally[1])
                                ELSE Checked("ok", body.self, Type_Tuple(<<>>))
                     IN  IF val.status # "ok" THEN val
                         ELSE Checked("ok", [val.self EXCEPT !.scope = pop(val.self.scope)],
                                      val.value)

\* Typechecker::visit_statement
Typechecker_visit_statement(self, stmt) ==
    CASE stmt.s = "Expression" ->
            LET r == Typechecker_visit_expression(self, stmt.expr)
            IN  IF r.status # "ok" THEN r ELSE Checked("ok", r.self, None)
      [] stmt.s = "Let" ->
            LET initializer_type == Typechecker_visit_expression(self, stmt.initializer)
            IN  IF initializer_type.status # "ok" THEN initializer_type
                ELSE IF stmt.ttype # None /\ initializer_type.value # stmt.ttype[1]
                THEN Checked("err", initializer_type.self,
                        onoi_type_error(T003(stmt.ttype[1], initializer_type.value),
                                        stmt.name))
                ELSE Checked("ok",
                        [initializer_type.self EXCEPT
                            !.scope = define(@, stmt.name.lexeme, initializer_type.value)],
                        None)

\* the end of check and of interpret: Err(errors) when any error was collected
collected(errors) ==
    IF Len(errors) > 0 THEN [ok |-> FALSE, errors |-> errors] ELSE [ok |-> TRUE]


(***************************************************************************)
(* onoi Interpreter                                                        *)
(***************************************************************************)
Value_Bool(v) == [t |-> "Bool", v |-> v]
Value_Text(v) == [t |-> "Text", v |-> v]
Value_Number(v) == [t |-> "Number", v |-> v]
Value_Tuple(inner) == [t |-> "Tuple", inner |-> inner]

\* is_truthy that takes every value for true
Value_is_truthy_always(self) == TRUE

\* Value::is_truthy
Value_is_truthy(self) ==
    CASE self.t = "Tuple" -> Len(self.inner) = 0
      [] self.t = "Bool" -> self.v
      [] OTHER -> TRUE

\* impl From<&Token> for Value
onoi_ValueFromToken(token) ==
    CASE token.kind = "NUMBER" -> Value_Number(token.payload)
      [] token.kind = "STRING" -> Value_Text(token.payload)
      [] token.kind = "FALSE" -> Value_Bool(FALSE)
      [] token.kind = "TRUE" -> Value_Bool(TRUE)
      [] OTHER -> Value_Tuple(<<>>)

\* Interpreter::new
onoi_Interpreter_new == [scope |-> new]

\* what a visit returns: status "ok" (value), "err" (value is the Error) or
\* "panic" (language_error, value is its message), and the Interpreter afterwards
Evaluated(status, self, value) == [status |-> status, self |-> self, value |-> value]

\* the Binary arm dividing without the test for a zero divisor (IEEE: infinite or NaN)
onoi_binary_unchecked_division(self, operator, left, right) ==
    LET k == operator.kind
        numbers == left.t = "Number" /\ right.t = "Number"
        texts == left.t = "Text" /\ right.t = "Text"
    IN  CASE numbers /\ k = "PLUS" -> Evaluated("ok", self, Value_Number(F64Add(left.v, right.v)))
          [] numbers /\ k = "MINUS" -> Evaluated("ok", self, Value_Number(F64Sub(left.v, right.v)))
          [] numbers /\ k = "STAR" -> Evaluated("ok", self, Value_Number(F64Mul(left.v, right.v)))
          [] numbers /\ k = "SLASH" ->
                Evaluated("ok", self,
                          Value_Number(IF right.v.n = 0 THEN [n |-> left.v.n, d |-> 0]
                                       ELSE F64Div(left.v, right.v)))
          [] numbers /\ k = "LESS" -> Evaluated("ok", self, Value_Bool(F64Less(left.v, right.v)))
          [] numbers /\ k = "LESSEQUAL" ->
                Evaluated("ok", self, Value_Bool(~F64Less(right.v, left.v)))
          [] numbers /\ k = "GREATER" ->
                Evaluated("ok", self, Value_Bool(F64Less(right.v, left.v)))
          [] numbers /\ k = "GREATEREQUAL" ->
                Evaluated("ok", self, Value_Bool(~F64Less(left.v, right.v)))
          [] texts /\ k = "PLUS" -> Evaluated("ok", self, Value_Text(left.v \o right.v))
          [] OTHER ->
                IF k = "EQUALEQUAL" THEN Evaluated("ok", self, Value_Bool(left = right))
                ELSE IF k = "BANGEQUAL" THEN Evaluated("ok", self, Value_Bool(left # right))
                ELSE language_error(self, "unknown binary operator")
\* the Binary arm of Interpreter::visit_expression once both operands are evaluated
onoi_binary(self, operator, left, right) ==
    LET k == operator.kind
        numbers == left.t = "Number" /\ right.t = "Number"
        texts == left.t = "Text" /\ right.t = "Text"
    IN  CASE numbers /\ k = "PLUS" -> Evaluated("ok", self, Value_Number(F64Add(left.v, right.v)))
          [] numbers /\ k = "MINUS" -> Evaluated("ok", self, Value_Number(F64Sub(left.v, right.v)))
          [] numbers /\ k = "STAR" -> Evaluated("ok", self, Value_Number(F64Mul(left.v, right.v)))
          [] numbers /\ k = "SLASH" ->
                IF right.v = F64(0, 1)
                THEN Evaluated("err", self, onoi_runtime_error(Errno("R001"), operator))
                ELSE Evaluated("ok", self, Value_Number(F64Div(left.v, right.v)))
          [] numbers /\ k = "LESS" -> Evaluated("ok", self, Value_Bool(F64Less(left.v, right.v)))
          [] numbers /\ k = "LESSEQUAL" ->
                Evaluated("ok", self, Value_Bool(~F64Less(right.v, left.v)))
          [] numbers /\ k = "GREATER" ->
                Evaluated("ok", self, Value_Bool(F64Less(right.v, left.v)))
          [] numbers /\ k = "GREATEREQUAL" ->
                Evaluated("ok", self, Value_Bool(~F64Less(left.v, right.v)))
          [] texts /\ k = "PLUS" -> Evaluated("ok", self, Value_Text(left.v \o right.v))
          [] OTHER ->
                IF k = "EQUALEQUAL" THEN Evaluated("ok", self, Value_Bool(left = right))
                ELSE IF k = "BANGEQUAL" THEN Evaluated("ok", self, Value_Bool(left # right))
                ELSE language_error(self, "unknown binary operator")

\* the Unary arm once the operand is evaluated
onoi_unary(self, operator, val) ==
    CASE operator.kind = "BANG" ->
            IF val.t = "Bool" THEN Evaluated("ok", self, Value_Bool(~val.v))
            ELSE language_error(self, "non-negateable value")
      [] operator.kind = "MINUS" ->
            IF val.t = "Number" THEN Evaluated("ok", self, Value_Number(F64Neg(val.v)))
            ELSE language_error(self, "non-negateable value")
      [] OTHER -> language_error(self, "Unknown unary operator")

RECURSIVE onoi_visit_expression(_, _), onoi_tuple(_, _, _)

onoi_tuple(self, inners, values) ==
    IF inners = <<>> THEN Evaluated("ok", self, Value_Tuple(values))
    ELSE LET r == onoi_visit_expression(self, Head(inners))
         IN  IF r.status # "ok" THEN r
             ELSE onoi_tuple(r.self, Tail(inners), Append(values, r.value))

\* Interpreter::visit_expression
onoi_visit_expression(self, e) ==
    CASE e.e = "Literal" -> Evaluated("ok", self, onoi_ValueFromToken(e.value))
      [] e.e = "Group" -> onoi_visit_expression(self, e.expr)
      [] e.e = "Tuple" -> onoi_tuple(self, e.inners, <<>>)
      [] e.e = "Logical" ->
            LET left == onoi_visit_expression(self, e.left)
            IN  IF left.status # "ok" THEN left
                ELSE LET left_is_true == Value_is_truthy(left.value)
                     IN  IF e.operator.kind = "OR" /\ left_is_true THEN left
                         ELSE IF e.operator.kind = "AND" /\ ~left_is_true THEN left
                         ELSE onoi_visit_expression(left.self, e.right)
      [] e.e = "Unary" ->
            LET val == onoi_visit_expression(self, e.expr)
            IN  IF val.status # "ok" THEN val
                ELSE onoi_unary(val.self, e.operator, val.value)
      [] e.e = "Binary" ->
            LET left == onoi_visit_expression(self, e.left)
            IN  IF left.status # "ok" THEN left
                ELSE LET right == onoi_visit_expression(left.self, e.right)
                     IN  IF right.status # "ok" THEN right
                         ELSE onoi_binary(right.self, e.operator, left.value, right.value)
      [] e.e = "Variable" ->
            LET value == get(self.scope, e.name.lexeme)
            IN  IF value # None THEN Evaluated("ok", self, value[1])
                ELSE language_error(self, "undefined variable that was not type checked")
      [] e.e = "Assign" ->
            LET value == onoi_visit_expression(self, e.expr)
            IN  IF value.status # "ok" THEN value
                ELSE LET a == assign(value.self.scope, e.name.lexeme, value.value)
                     IN  IF ~a.ok
                         THEN language_error(value.self, "assignment target is not in scope")
                         ELSE Evaluated("ok", [value.self EXCEPT !.scope = a.env], value.value)
      [] OTHER -> language_error(self, "expression without an arm in visit_expression")

\* Interpreter::visit_statement
onoi_visit_statement(self, stmt) ==
    CASE stmt.s = "Expression" ->
            LET r == onoi_visit_expression(self, stmt.expr)
            IN  IF r.status # "ok" THEN r ELSE Evaluated("ok", r.self, None)
      [] stmt.s = "Let" ->
            LET value == onoi_visit_expression(self, stmt.initializer)
            IN  IF value.status # "ok" THEN value
                ELSE Evaluated("ok",
                        [value.self EXCEPT !.scope = define(@, stmt.name.lexeme, value.value)],
                        None)


(***************************************************************************)
(* onoi run: tokenize, parse, check, interpret                             *)
(***************************************************************************)
\* the order of the four calls in the body of run
next_phase_skipping_check(phase) ==
    CASE phase = "tokenize" -> "parse"
      [] phase = "parse" -> "interpret"
      [] phase = "check" -> "interpret"
      [] phase = "interpret" -> "returned"
next_phase(phase) ==
    CASE phase = "tokenize" -> "parse"
      [] phase = "parse" -> "check"
      [] phase = "check" -> "interpret"
      [] phase = "interpret" -> "returned"

\* how a call that did not return ends the program
Aborted(status) == IF status = "diverge" THEN "diverged" ELSE "panicked"
Returned(phase, result) == [phase |-> phase, result |-> result]

\* programs: up to MaxFragments of these texts, one after the other
MaxFragments == 3
RunFragments ==
    {<<"l", "e", "t", " ", "x", "=", "1", ";">>,                 \* let x=1;
     <<"l", "e", "t", " ", "y", "=", "1", "/", "0", ";">>,       \* let y=1/0;
     <<"x", ";">>,                                               \* x;
     <<"y", ";">>,                                               \* y;
     <<"x", "=", "t", "r", "u", "e", ";">>,                      \* x=true;
     <<"1", "+", ";">>,                                          \* 1+;
     <<"@">>,                                                    \* @
     <<"#", "c">>}                                               \* #c
RECURSIVE Flatten(_)
Flatten(seqs) == IF seqs = <<>> THEN <<>> ELSE Head(seqs) \o Flatten(Tail(seqs))
RunSources == {Flatten(fs) : fs \in SeqsUpTo(RunFragments, MaxFragments)}

RunInit ==
    /\ EnvIdle
    /\ ParIdle
    /\ LegIdle
    /\ overflow_checks \in BOOLEAN
    /\ lexSrc = <<>>
    /\ lexer = <<>>
    /\ lexErrors = <<>>
    /\ lexPc = "idle"
    /\ lexResult = None
    /\ runSrc \in RunSources
    /\ runPc = "tokenize"
    /\ runTokens = <<>>
    /\ runStatements = <<>>
    /\ typechecker = None
    /\ interpreter = None
    /\ runIndex = 1
    /\ runErrors = <<>>
    /\ runTrace = <<>>
    /\ runResult = None

\* let tokens = Lexer::new().tokenize(program)?;
RunTokenize ==
    /\ runPc = "tokenize"
    /\ LET t == tokenize(Lexer_new, runSrc, overflow_checks)
       IN  IF t.status # "returned"
           THEN /\ runPc' = Aborted(t.status)
                /\ UNCHANGED <<runTokens, runTrace, runResult>>
           ELSE /\ runTrace' = Append(runTrace, Returned("tokenize", t.result))
                /\ IF t.result.ok
                   THEN /\ runTokens' = t.result.value
                        /\ runPc' = next_phase("tokenize")
                        /\ UNCHANGED runResult
                   ELSE /\ runPc' = "returned"
                        /\ runResult' = Some([ok |-> FALSE, errors |-> t.result.errors])
                        /\ UNCHANGED runTokens
    /\ UNCHANGED <<runSrc, runStatements, typechecker, interpreter, runIndex, runErrors>>
    /\ UNCHANGED <<overflow_checks, notRunVars>>

\* let statements = Parser::new().parse(tokens)?;
RunParse ==
    /\ runPc = "parse"
    /\ LET r == parse(Parser_new, runTokens)
       IN  IF r.status # "returned"
           THEN /\ runPc' = Aborted(r.status)
                /\ UNCHANGED <<runStatements, runTrace, runResult>>
           ELSE /\ runTrace' = Append(runTrace, Returned("parse", r.result))
                /\ IF r.result.ok
                   THEN /\ runStatements' = r.result.value
                        /\ runPc' = next_phase("parse")
                        /\ UNCHANGED runResult
                   ELSE /\ runPc' = "returned"
                        /\ runResult' = Some([ok |-> FALSE, errors |-> r.result.errors])
                        /\ UNCHANGED runStatements
    /\ UNCHANGED <<runSrc, runTokens, typechecker, interpreter, runIndex, runErrors>>
    /\ UNCHANGED <<overflow_checks, notRunVars>>

\* Typechecker::new() on the first iteration, then the Typechecker as it is
TheTypechecker == IF typechecker = None THEN Typechecker_new ELSE typechecker[1]
TheInterpreter == IF interpreter = None THEN onoi_Interpreter_new ELSE interpreter[1]

\* one iteration of `for stmt in statements` in Typechecker::check
CheckStatement ==
    /\ runPc = "check"
    /\ runIndex <= Len(runStatements)
    /\ LET r == Typechecker_visit_statement(TheTypechecker, runStatements[runIndex])
       IN  /\ typechecker' = Some(r.self)
           /\ IF r.status = "panic"
              THEN runPc' = "panicked" /\ UNCHANGED <<runIndex, runErrors>>
              ELSE /\ runIndex' = runIndex + 1
                   /\ runErrors' = IF r.status = "err" THEN Append(runErrors, r.value)
                                   ELSE runErrors
                   /\ UNCHANGED runPc
    /\ UNCHANGED <<runSrc, runTokens, runStatements, interpreter, runTrace, runResult>>
    /\ UNCHANGED <<overflow_checks, notRunVars>>

\* the end of Typechecker::check and the `?` applied to it in run
CheckFinish ==
    /\ runPc = "check"
    /\ runIndex > Len(runStatements)
    /\ LET result == collected(runErrors)
       IN  /\ runTrace' = Append(runTrace, Returned("check", result))
           /\ IF result.ok
              THEN runPc' = next_phase("check") /\ UNCHANGED runResult
              ELSE /\ runPc' = "returned"
                   /\ runResult' = Some([ok |-> FALSE, errors |-> result.errors])
    /\ typechecker' = Some(TheTypechecker)
    /\ runIndex' = 1
    /\ runErrors' = <<>>
    /\ UNCHANGED <<runSrc, runTokens, runStatements, interpreter>>
    /\ UNCHANGED <<overflow_checks, notRunVars>>

\* one iteration of `for stmt in statements` in Interpreter::interpret
InterpretStatement ==
    /\ runPc = "interpret"
    /\ runIndex <= Len(runStatements)
    /\ LET r == onoi_visit_statement(TheInterpreter, runStatements[runIndex])
       IN  /\ interpreter' = Some(r.self)
           /\ IF r.status = "panic"
              THEN runPc' = "panicked" /\ UNCHANGED <<runIndex, runErrors>>
              ELSE /\ runIndex' = runIndex + 1
                   /\ runErrors' = IF r.status = "err" THEN Append(runErrors, r.value)
                                   ELSE runErrors
                   /\ UNCHANGED runPc
    /\ UNCHANGED <<runSrc, runTokens, runStatements, typechecker, runTrace, runResult>>
    /\ UNCHANGED <<overflow_checks, notRunVars>>

\* the end of Interpreter::interpret and Ok(..?) in run
InterpretFinish ==
    /\ runPc = "interpret"
    /\ runIndex > Len(runStatements)
    /\ LET result == collected(runErrors)
       IN  /\ runTrace' = Append(runTrace, Returned("interpret", result))
           /\ runResult' = Some(result)
    /\ runPc' = next_phase("interpret")
    /\ interpreter' = Some(TheInterpreter)
    /\ runIndex' = 1
    /\ runErrors' = <<>>
    /\ UNCHANGED <<runSrc, runTokens, runStatements, typechecker>>
    /\ UNCHANGED <<overflow_checks, notRunVars>>

RunNext ==
    \/ RunTokenize
    \/ RunParse
    \/ CheckStatement
    \/ CheckFinish
    \/ InterpretStatement
    \/ InterpretFinish

SpecRun == RunInit /\ [][RunNext]_vars

\* C2: in run the phases execute in the order tokenize, parse, check,
\* interpret; a phase starts only if every earlier phase returned Ok; when a
\* phase returns errors, run returns exactly that phase's errors and no later
\* phase executes (no statement is interpreted unless the list type-checked).
PhaseOrder == <<"tokenize", "parse", "check", "interpret">>
PhaseIndex(phase) == CHOOSE i \in 1..4 : PhaseOrder[i] = phase
C2_PhasesInOrder ==
    /\ Len(runTrace) <= 4
    /\ \A i \in 1..Len(runTrace) : runTrace[i].phase = PhaseOrder[i]
    /\ \A i \in 1..(Len(runTrace) - 1) : runTrace[i].result.ok
    /\ runPc \in {"tokenize", "parse", "check", "interpret"} =>
            /\ Len(runTrace) = PhaseIndex(runPc) - 1
            /\ \A i \in 1..Len(runTrace) : runTrace[i].result.ok
            /\ runResult = None
    /\ typechecker # None => Len(runTrace) >= 2 /\ runTrace[2].result.ok
    /\ interpreter # None => Len(runTrace) >= 3 /\ runTrace[3].result.ok
    /\ runPc = "returned" =>
            /\ runTrace # <<>>
            /\ runResult # None
            /\ LET last == runTrace[Len(runTrace)].result
               IN  IF last.ok THEN Len(runTrace) = 4 /\ runResult[1].ok
                   ELSE runResult[1] = [ok |-> FALSE, errors |-> last.errors]
\* run returned the errors of check and nothing was interpreted
C2_Witness ==
    /\ runPc = "returned"
    /\ Len(runTrace) = 3
    /\ ~runTrace[3].result.ok
    /\ interpreter = None
    /\ runResult = Some([ok |-> FALSE, errors |-> runTrace[3].result.errors])

\* C1: when check accepted the statement list (returned Ok on a new
\* Typechecker), interpret on a new Interpreter never reaches a
\* language_error abort, and the only failures it collects are RuntimeError
\* values for division by zero.
CheckAccepted ==
    /\ Len(runTrace) >= 3
    /\ runTrace[3].phase = "check"
    /\ runTrace[3].result.ok
C1_AcceptedProgramsNeverAbort ==
    CheckAccepted =>
        /\ runPc # "panicked"
        /\ \A i \in 1..Len(runErrors) : runErrors[i].errno = Errno("R001")

(***************************************************************************)
(* Typechecker::check on statement lists given as syntax trees             *)
(***************************************************************************)
MaxStatements == 3
A_minus == Token_new(TokenKind("MINUS"), 0, 0, "-")
A_plus == Token_new(TokenKind("PLUS"), 0, 1, "+")
A_z == Token_new(TokenKindOf("IDENTIFIER", "z"), 0, 4, "z")
A_one == Expr_Literal(Token_new(TokenKindOf("NUMBER", F64(1, 1)), 0, 2, "1"))
A_true == Expr_Literal(Token_new(TokenKind("TRUE"), 0, 3, "true"))
\* -true
A_neg_true == Expr_Unary(A_minus, A_true)
\* let z = 1;
A_let_z == onoi_Stmt_Let(A_z, None, A_one)
AstStatements ==
    {onoi_Stmt_Expression(Expr_Tuple(<<A_neg_true, A_neg_true>>)),          \* (-true, -true);
     onoi_Stmt_Expression(Expr_Binary(A_plus, A_neg_true, A_neg_true)),      \* -true + -true;
     onoi_Stmt_Expression(Expr_Binary(A_plus, A_one, A_neg_true)),           \* 1 + -true;
     onoi_Stmt_Expression(Expr_Block(<<A_let_z>>, None)),                    \* { let z = 1; }
     onoi_Stmt_Expression(Expr_Block(<<A_let_z>>, Some(A_neg_true))),        \* { let z = 1; -true }
     onoi_Stmt_Expression(Expr_Block(<<A_let_z>>, Some(Expr_Variable(A_z)))),\* { let z = 1; z }
     onoi_Stmt_Expression(Expr_Variable(A_z)),                               \* z;
     A_let_z}
AstPrograms == SeqsUpTo(AstStatements, MaxStatements)

\* Typechecker::new().check(&statements)
CheckInit ==
    /\ EnvIdle
    /\ ParIdle
    /\ LegIdle
    /\ LexIdle
    /\ runSrc = <<>>
    /\ runPc = "check"
    /\ runTokens = <<>>
    /\ runStatements \in AstPrograms
    /\ typechecker = None
    /\ interpreter = None
    /\ runIndex = 1
    /\ runErrors = <<>>
    /\ runTrace = <<>>
    /\ runResult = None

CheckNext ==
    \/ CheckStatement
    \/ CheckFinish

SpecCheck == CheckInit /\ [][CheckNext]_vars

\* the statement check is about to visit
CheckingStatement == runPc = "check" /\ runIndex <= Len(runStatements)
\* e is ill-typed on its own in the scope the Typechecker has now
IllTyped(e) == Typechecker_visit_expression(TheTypechecker, e).status = "err"
\* a binary expression or a two-element tuple whose two parts are each
\* ill-typed on their own
TwoIndependentErrors(stmt) ==
    /\ stmt.s = "Expression"
    /\ \/ /\ stmt.expr.e = "Binary"
          /\ IllTyped(stmt.expr.left)
          /\ IllTyped(stmt.expr.right)
       \/ /\ stmt.expr.e = "Tuple"
          /\ Len(stmt.expr.inners) = 2
          /\ IllTyped(stmt.expr.inners[1])
          /\ IllTyped(stmt.expr.inners[2])

\* C11: check returns every type error of the statement list: a statement
\* holding two independent type errors (both operands of a binary expression,
\* or two elements of a tuple) adds both of them to the collected errors.
C11_AllTypeErrorsReported ==
    [][(CheckingStatement /\ TwoIndependentErrors(runStatements[runIndex]))
          => Len(runErrors') >= Len(runErrors) + 2]_vars

\* the statement check is about to visit is a Block expression
CheckingBlock ==
    /\ CheckingStatement
    /\ runStatements[runIndex].s = "Expression"
    /\ runStatements[runIndex].expr.e = "Block"
\* C12: after the Typechecker visited a Block, with or without a type error
\* inside it, the scope chain is as deep as before the block and no name
\* defined inside the block is visible afterwards.
C12_BlockScopeDiscarded ==
    [][CheckingBlock =>
          /\ Len(typechecker'[1].scope) = Len(TheTypechecker.scope)
          /\ \A n \in {"z"} :
                get(typechecker'[1].scope, n) # None => get(TheTypechecker.scope, n) # None]_vars

\* the Type of a runtime Value, tuples structurally
RECURSIVE TypeOfValue(_)
TypeOfValue(value) ==
    CASE value.t = "Number" -> Type_Number
      [] value.t = "Text" -> Type_Text
      [] value.t = "Bool" -> Type_Bool
      [] OTHER -> Type_Tuple([i \in 1..Len(value.inner) |-> TypeOfValue(value.inner[i])])
\* run went through check (accepted) and interpret returned
InterpretReturned ==
    /\ runPc = "returned"
    /\ Len(runTrace) = 4
    /\ runTrace[3].result.ok
\* C13: after an accepted statement list was interpreted, a name is bound in
\* the Interpreter's scope iff it is bound in the Typechecker's scope, and the
\* Value bound to it has the Type recorded for it.
C13_ScopesMirrored ==
    InterpretReturned =>
        \A n \in {"x", "y"} :
            LET value == get(interpreter[1].scope, n)
                found == get(typechecker[1].scope, n)
            IN  /\ value # None <=> found # None
                /\ (value # None /\ found # None) => TypeOfValue(value[1]) = found[1]

(***************************************************************************)
(* onoi Parser::parse, one loop iteration at a time, on one Parser that is *)
(* used for one call or for two calls in a row                             *)
(***************************************************************************)
MaxParseFragments == 2
ParseFragments ==
    {<<"1", "+">>,                                   \* 1+
     <<"1", "+", ";">>,                              \* 1+;
     <<"l", "e", "t", ";">>,                         \* let;
     <<"l", "e", "t", " ", "x", "=", "1", ";">>,     \* let x=1;
     <<"x", "=", "1", ";">>,                         \* x=1;
     <<"1", "=">>,                                   \* 1=
     <<"1", "=", "1", ";">>,                         \* 1=1;
     <<"(", "x", ")", "=", "1", ";">>,               \* (x)=1;
     <<"(", ")", ";">>,                              \* ();
     <<"(", "1", ")", ";">>,                         \* (1);
     <<"(", "1", ",", "x", ")", ";">>,               \* (1,x);
     <<";">>}                                        \* ;
ParseSources == {Flatten(fs) : fs \in SeqsUpTo(ParseFragments, MaxParseFragments)}
\* Lexer::new().tokenize(src) of a source without lexical errors
TokensOf(src) == tokenize(Lexer_new, src, TRUE).result.value
\* the token lists given to a second call of parse on the same Parser
ReuseSources == {<<"x", ";">>, <<"l", "e", "t", " ", "x", "=", "1", ";">>}
\* expressions of number literals separated by binary operators: 1 op 2 op 3;
MaxOperators == 2
OperatorTexts ==
    {<<" ", "o", "r", " ">>, <<" ", "a", "n", "d", " ">>, <<"=", "=">>, <<"!", "=">>,
     <<"<">>, <<"<", "=">>, <<">">>, <<">", "=">>, <<"+">>, <<"-">>, <<"*">>, <<"/">>}
RECURSIVE OperatorExpression(_, _)
OperatorExpression(ops, i) ==
    IF i > Len(ops) THEN <<>>
    ELSE ops[i] \o <<ToString(i + 1)>> \o OperatorExpression(ops, i + 1)
ExpressionSources ==
    {<<"1">> \o OperatorExpression(ops, 1) \o <<";">> : ops \in SeqsUpTo(OperatorTexts, MaxOperators)}
\* parenthesised forms: (), (e), (e1,e2), ... with a literal or a variable as e
MaxElements == 3
RECURSIVE CommaSeparated(_, _)
CommaSeparated(elements, i) ==
    IF i > Len(elements) THEN <<>>
    ELSE (IF i = 1 THEN <<>> ELSE <<",">>) \o <<elements[i]>> \o CommaSeparated(elements, i + 1)
ParenSources ==
    {<<"(">> \o CommaSeparated(elements, 1) \o <<")", ";">> :
        elements \in SeqsUpTo({"1", "x"}, MaxElements)}
ParseCalls ==
    {<<TokensOf(a)>> : a \in ParseSources \cup ExpressionSources \cup ParenSources}
        \cup {<<TokensOf(a), TokensOf(b)>> : a \in ParseSources, b \in ReuseSources}

ParseInit ==
    /\ EnvIdle
    /\ LegIdle
    /\ LexIdle
    /\ RunIdle
    /\ parser = Parser_new
    /\ parsePc = "call"
    /\ parseInputs \in ParseCalls
    /\ parseErrors = <<>>
    /\ parseStatements = <<>>
    /\ parseResults = <<>>

\* self.tokens = tokens; let mut errors = Vec::new(); let mut statements = Vec::new();
ParseBegin ==
    /\ parsePc = "call"
    /\ parseInputs # <<>>
    /\ parser' = [parser EXCEPT !.tokens = Head(parseInputs)]
    /\ parseInputs' = Tail(parseInputs)
    /\ parseErrors' = <<>>
    /\ parseStatements' = <<>>
    /\ parsePc' = "loop"
    /\ UNCHANGED <<parseResults, notParVars>>

\* the test of the while loop when the cursor is no index of the token list:
\* peek unwraps None
ParsePanic ==
    /\ parsePc = "loop"
    /\ parser.current >= Len(parser.tokens)
    /\ parsePc' = "panicked"
    /\ UNCHANGED <<parser, parseInputs, parseErrors, parseStatements, parseResults, notParVars>>

\* one iteration of the while loop
ParseDeclaration ==
    /\ parsePc = "loop"
    /\ parser.current < Len(parser.tokens)
    /\ ~Parser_is_at_end(parser)
    /\ LET r == parse_iteration(parser)
       IN  /\ parser' = r.self
           /\ IF r.status = "ok"
              THEN /\ parseStatements' = Append(parseStatements, r.value)
                   /\ UNCHANGED parseErrors
              ELSE /\ parseErrors' = Append(parseErrors, r.value)
                   /\ UNCHANGED parseStatements
    /\ UNCHANGED <<parsePc, parseInputs, parseResults, notParVars>>

\* the loop ends at EOF and parse returns
ParseFinish ==
    /\ parsePc = "loop"
    /\ parser.current < Len(parser.tokens)
    /\ Parser_is_at_end(parser)
    /\ parseResults' = Append(parseResults, parse_result(parseErrors, parseStatements))
    /\ parsePc' = "call"
    /\ UNCHANGED <<parser, parseInputs, parseErrors, parseStatements, notParVars>>

ParseNext ==
    \/ ParseBegin
    \/ ParsePanic
    \/ ParseDeclaration
    \/ ParseFinish

SpecParse == ParseInit /\ [][ParseNext]_vars

\* the while loop of parse is about to run one more iteration
ParsingDeclaration ==
    /\ parsePc = "loop"
    /\ parser.current < Len(parser.tokens)
    /\ ~Parser_is_at_end(parser)
\* the first cursor position at or after self.current that is a statement
\* boundary: just after a SEMICOLON, in front of `let`, or at EOF
StatementBoundary(self) ==
    LET boundary(c) ==
            \/ self.tokens[c + 1].kind \in {"EOF", "LET"}
            \/ c > self.current /\ self.tokens[c].kind = "SEMICOLON"
    IN  CHOOSE c \in self.current..(Len(self.tokens) - 1) :
            /\ boundary(c)
            /\ \A b \in self.current..(c - 1) : ~boundary(b)
\* C14: after a parse error, synchronize discards tokens only up to the next
\* statement boundary: it stops just after the next SEMICOLON, or in front of
\* the next `let`, or at EOF, whichever comes first.
C14_SynchronizeStopsAtBoundary ==
    [][(ParsingDeclaration /\ declaration(parser).status = "err")
          => parser'.current = StatementBoundary(declaration(parser).self)]_vars

\* the binding strength of a binary operator: or < and < equality < comparison
\* < additive < multiplicative
TierRank(kind) ==
    CASE kind = "OR" -> 1
      [] kind = "AND" -> 2
      [] kind \in {"BANGEQUAL", "EQUALEQUAL"} -> 3
      [] kind \in {"LESS", "LESSEQUAL", "GREATER", "GREATEREQUAL"} -> 4
      [] kind \in {"MINUS", "PLUS"} -> 5
      [] kind \in {"SLASH", "STAR"} -> 6
      [] OTHER -> 0
\* tokens is operand (operator operand)* ; EOF with number literals as operands
IsOperatorExpression(tokens) ==
    /\ Len(tokens) >= 3
    /\ Len(tokens) % 2 = 1
    /\ tokens[Len(tokens)].kind = "EOF"
    /\ tokens[Len(tokens) - 1].kind = "SEMICOLON"
    /\ \A i \in 1..(Len(tokens) - 2) :
            IF i % 2 = 1 THEN tokens[i].kind = "NUMBER" ELSE TierRank(tokens[i].kind) > 0
\* the tree of the precedence grammar for tokens[lo..hi]: the root is the
\* rightmost operator of the loosest tier present
RECURSIVE ReferenceTree(_, _, _)
ReferenceTree(tokens, lo, hi) ==
    IF lo = hi THEN Expr_Literal(tokens[lo])
    ELSE LET ops == {i \in lo..hi : (i - lo) % 2 = 1}
             root == CHOOSE k \in ops :
                        \A i \in ops :
                            \/ TierRank(tokens[i].kind) > TierRank(tokens[k].kind)
                            \/ TierRank(tokens[i].kind) = TierRank(tokens[k].kind) /\ i <= k
             left == ReferenceTree(tokens, lo, root - 1)
             right == ReferenceTree(tokens, root + 1, hi)
         IN  IF TierRank(tokens[root].kind) <= 2
             THEN Expr_Logical(tokens[root], left, right)
             ELSE Expr_Binary(tokens[root], left, right)
\* parse returned for an expression of literals and binary operators
ParsedOperatorExpression ==
    /\ parsePc = "call"
    /\ Len(parseResults) = 1
    /\ IsOperatorExpression(parser.tokens)
\* C15: for an expression of literal operands separated by binary operators,
\* parse returns the tree of the precedence grammar: tighter tiers are
\* subtrees of looser ones and operators of one tier nest to the left.
C15_PrecedenceTree ==
    ParsedOperatorExpression =>
        parseResults[1] =
            [ok |-> TRUE,
             value |-> <<onoi_Stmt_Expression(
                            ReferenceTree(parser.tokens, 1, Len(parser.tokens) - 2))>>]
\* 1 + 2 * 3; was parsed and the product is the right operand of the sum
C15_Witness ==
    /\ ParsedOperatorExpression
    /\ Len(parser.tokens) = 7
    /\ parser.tokens[2].kind = "PLUS"
    /\ parser.tokens[4].kind = "STAR"
    /\ parseResults[1].ok
    /\ parseResults[1].value[1].expr.operator.kind = "PLUS"
    /\ parseResults[1].value[1].expr.right.e = "Binary"

\* tokens is ( e , ... , e ) ; EOF with literals and variables as elements
IsParenForm(tokens) ==
    /\ Len(tokens) >= 4
    /\ tokens[1].kind = "LEFTPAREN"
    /\ tokens[Len(tokens)].kind = "EOF"
    /\ tokens[Len(tokens) - 1].kind = "SEMICOLON"
    /\ tokens[Len(tokens) - 2].kind = "RIGHTPAREN"
    /\ \A i \in 2..(Len(tokens) - 3) :
            IF i % 2 = 0 THEN tokens[i].kind \in {"NUMBER", "IDENTIFIER"}
            ELSE tokens[i].kind = "COMMA"
\* the number of expressions between the parentheses
ElementCount(tokens) == (Len(tokens) - 3) \div 2
\* the expression a single literal or identifier token stands for
ElementOf(token) ==
    IF token.kind = "IDENTIFIER" THEN Expr_Variable(token) ELSE Expr_Literal(token)
ParsedParenForm ==
    /\ parsePc = "call"
    /\ Len(parseResults) = 1
    /\ IsParenForm(parser.tokens)
\* C16: `()` parses to a Tuple with zero elements, `(e)` to Group(e) and never
\* to a one-element Tuple, `(e1, ..., en)` with n >= 2 to a Tuple holding the
\* n expressions in source order.
C16_ParenthesisedForms ==
    ParsedParenForm =>
        LET n == ElementCount(parser.tokens)
            elements == [i \in 1..n |-> ElementOf(parser.tokens[2 * i])]
        IN  parseResults[1] =
                [ok |-> TRUE,
                 value |-> <<onoi_Stmt_Expression(
                                IF n = 1 THEN Expr_Group(elements[1])
                                ELSE Expr_Tuple(elements))>>]
\* (e); was parsed to a Group
C16_Witness ==
    /\ ParsedParenForm
    /\ ElementCount(parser.tokens) = 1
    /\ parseResults[1].ok
    /\ parseResults[1].value[1].expr.e = "Group"

\* the first call of parse has returned
ParsedOnce == parsePc = "call" /\ Len(parseResults) = 1 /\ parseInputs = <<>>
\* token k is an `=` whose left neighbour ends an expression that is not a
\* bare Variable: a number literal or a closing parenthesis
InvalidTargetAt(tokens, k) ==
    /\ tokens[k].kind = "EQUAL"
    /\ tokens[k - 1].kind \in {"NUMBER", "RIGHTPAREN"}
\* the invalid-assignment-target errors anchored at a token
TargetErrorsAt(errors, token) ==
    {i \in 1..Len(errors) : errors[i].errno = Errno("S009") /\ errors[i].token = token}
\* C17: when the expression left of `=` is not a bare Variable, parse records
\* exactly one invalid-assignment-target SyntaxError anchored at that `=`.
C17_InvalidTargetReported ==
    ParsedOnce =>
        \A k \in 2..Len(parser.tokens) :
            InvalidTargetAt(parser.tokens, k) =>
                /\ ~parseResults[1].ok
                /\ Cardinality(TargetErrorsAt(parseResults[1].errors, parser.tokens[k])) = 1

\* the least index at or after i where src holds g, 0 when there is none
NextIndexOf(src, i, g) ==
    IF \E j \in i..Len(src) : src[j] = g
    THEN CHOOSE j \in i..Len(src) : src[j] = g /\ \A k \in i..(j - 1) : src[k] # g
    ELSE 0
\* the last index of the run of digits (or of letters and digits) starting at i
RECURSIVE RunEnd(_, _, _)
RunEnd(src, i, digits_only) ==
    IF i < Len(src) /\ (IF digits_only THEN is_digit(src[i + 1])
                                        ELSE is_alpha_numeric(src[i + 1]))
    THEN RunEnd(src, i + 1, digits_only)
    ELSE i
\* the index of the last grapheme of the number or word starting at i
LexemeEnd(src, i) ==
    IF is_digit(src[i])
    THEN LET k == RunEnd(src, i, TRUE)
         IN  IF k + 1 < Len(src) /\ src[k + 1] = "." /\ is_digit(src[k + 2])
             THEN RunEnd(src, k + 2, TRUE)
             ELSE k
    ELSE RunEnd(src, i, FALSE)
\* line and column of the grapheme after src[i..j], which starts at line:col
LineAfter(src, i, j, line) == line + Cardinality({k \in i..j : src[k] = "\n"})
ColumnAfter(src, i, j, col) ==
    IF \E k \in i..j : src[k] = "\n"
    THEN j - (CHOOSE k \in i..j : src[k] = "\n" /\ \A m \in (k + 1)..j : src[m] # "\n")
    ELSE col + (j - i + 1)
\* the lexical errors of src from index i on, read off the source text: one
\* S001 per unrecognised grapheme outside strings and comments, S002 at the
\* opening quote of a string that is not closed
RECURSIVE LexicalErrors(_, _, _, _)
LexicalErrors(src, i, line, col) ==
    IF i > Len(src) THEN <<>>
    ELSE LET g == src[i]
             j == CASE g = "#" -> NextIndexOf(src, i, "\n")
                    [] g = "\"" -> NextIndexOf(src, i + 1, "\"")
                    [] is_alpha_numeric(g) -> LexemeEnd(src, i)
                    [] OTHER -> i
             rest == LexicalErrors(src, j + 1, LineAfter(src, i, j, line),
                                   ColumnAfter(src, i, j, col))
         IN  CASE j = 0 /\ g = "#" -> <<>>
               [] j = 0 /\ g = "\"" ->
                    <<onoi_syntax_error(Errno("S002"),
                                        Token_new(TokenKind("UNKNOWN"), line, col, "\""))>>
               [] g \in {"@", "."} ->
                    <<onoi_syntax_error(Errno("S001"),
                                        Token_new(TokenKind("UNKNOWN"), line, col, g))>> \o rest
               [] OTHER -> rest
\* tokenize has returned
TokenizeReturned == lexPc = "done" /\ lexResult # None
\* the errors tokenize returned, none when it returned Ok
ReportedErrors == IF lexResult[1].ok THEN <<>> ELSE lexResult[1].errors
\* C18: one call of tokenize reports every lexical error of the source, in
\* source order, each anchored at the line and column where it originates,
\* the unterminated string at its opening quote.
C18_AllLexicalErrorsReported ==
    TokenizeReturned => ReportedErrors = LexicalErrors(lexSrc, 1, 0, 0)
\* an unrecognised grapheme and, on a later line, a string that is never
\* closed and runs over a line break: both are reported
C18_Witness ==
    /\ TokenizeReturned
    /\ Len(ReportedErrors) = 2
    /\ ReportedErrors[1].errno = Errno("S001")
    /\ ReportedErrors[2].errno = Errno("S002")
    /\ ReportedErrors[2].token.position.line = 1
    /\ lexSrc[Len(lexSrc)] = "\n"

\* C19: tokenize returns Ok exactly when no lexical error was collected,
\* otherwise Err with all collected errors and no tokens; an Ok result is a
\* non-empty token list whose last token, and no other, has kind EOF.
C19_OkIffNoErrorsAndEofLast ==
    TokenizeReturned =>
        /\ lexResult[1].ok <=> lexErrors = <<>>
        /\ ~lexResult[1].ok =>
                /\ lexResult[1].errors = lexErrors
                /\ DOMAIN lexResult[1] = {"ok", "errors"}
        /\ lexResult[1].ok =>
                LET tokens == lexResult[1].value
                IN  /\ tokens # <<>>
                    /\ \A i \in 1..Len(tokens) : tokens[i].kind = "EOF" <=> i = Len(tokens)
\* tokenize returned Ok with tokens in front of the EOF token
C19_Witness ==
    /\ TokenizeReturned
    /\ lexErrors = <<>>
    /\ lexResult[1].ok
    /\ Len(lexResult[1].value) >= 3
    /\ lexResult[1].value[Len(lexResult[1].value)].kind = "EOF"

\* C20: every non-EOF token carries the 0-based line and grapheme column of
\* the first grapheme of its lexeme, computed by a subtraction that never goes
\* below zero, and its lexeme is the source text it was matched from, also
\* for string literals that contain newlines.
C20_TokenPositions ==
    [][lexPc = "scan" =>
          /\ lexPc' # "panicked"
          /\ Len(lexer'.tokens) > Len(lexer.tokens) =>
                LET token == lexer'.tokens[Len(lexer'.tokens)]
                IN  /\ token.position =
                            [line |-> LineAfter(lexSrc, 1, lexer.current, 0),
                             column |-> ColumnAfter(lexSrc, 1, lexer.current, 0)]
                    /\ token.lexeme = Slice(lexSrc, lexer.current, lexer'.current)]_vars

(***************************************************************************)
(* Typechecker::visit_expression on one operator and two operand types     *)
(***************************************************************************)
MaxTupleLen == 2
\* the operand types: the three base types and tuples of base types
OperandTypes ==
    {Type_Number, Type_Text, Type_Bool}
        \cup {Type_Tuple(inners) : inners \in SeqsUpTo({Type_Number, Type_Bool}, MaxTupleLen)}
\* a literal of each base type
LiteralOfType(type) ==
    CASE type = Type_Number -> Expr_Literal(Token_new(TokenKindOf("NUMBER", F64(1, 1)), 0, 0, "1"))
      [] type = Type_Text -> Expr_Literal(Token_new(TokenKindOf("STRING", "a"), 0, 0, "\"a\""))
      [] type = Type_Bool -> Expr_Literal(Token_new(TokenKind("TRUE"), 0, 0, "true"))
\* an expression of each operand type
OperandOfType(type) ==
    IF type.t = "Tuple"
    THEN Expr_Tuple([i \in 1..Len(type.inners) |-> LiteralOfType(type.inners[i])])
    ELSE LiteralOfType(type)
BinaryOperators ==
    {Token_new(TokenKind("PLUS"), 0, 5, "+"), Token_new(TokenKind("MINUS"), 0, 5, "-"),
     Token_new(TokenKind("STAR"), 0, 5, "*"), Token_new(TokenKind("SLASH"), 0, 5, "/"),
     Token_new(TokenKind("LESS"), 0, 5, "<"), Token_new(TokenKind("LESSEQUAL"), 0, 5, "<="),
     Token_new(TokenKind("GREATER"), 0, 5, ">"), Token_new(TokenKind("GREATEREQUAL"), 0, 5, ">="),
     Token_new(TokenKind("EQUALEQUAL"), 0, 5, "=="), Token_new(TokenKind("BANGEQUAL"), 0, 5, "!=")}
LogicalOperators ==
    {Token_new(TokenKind("AND"), 0, 5, "and"), Token_new(TokenKind("OR"), 0, 5, "or")}
OperatorStatements ==
    {onoi_Stmt_Expression(Expr_Binary(operator, OperandOfType(l), OperandOfType(r))) :
        operator \in BinaryOperators, l \in OperandTypes, r \in OperandTypes}
    \cup
    {onoi_Stmt_Expression(Expr_Logical(operator, OperandOfType(l), OperandOfType(r))) :
        operator \in LogicalOperators, l \in OperandTypes, r \in OperandTypes}

\* Typechecker::new().check(&[stmt]) for one operator expression statement
OperatorInit ==
    /\ EnvIdle
    /\ ParIdle
    /\ LegIdle
    /\ LexIdle
    /\ runSrc = <<>>
    /\ runPc = "check"
    /\ runTokens = <<>>
    /\ runStatements \in {<<stmt>> : stmt \in OperatorStatements}
    /\ typechecker = None
    /\ interpreter = None
    /\ runIndex = 1
    /\ runErrors = <<>>
    /\ runTrace = <<>>
    /\ runResult = None

OperatorNext ==
    \/ CheckStatement
    \/ CheckFinish

SpecOperator == OperatorInit /\ [][OperatorNext]_vars

\* the table of the operator rules: the result type, or None where the
\* combination is a type error
OperatorTable(kind, left, right) ==
    CASE kind = "PLUS" ->
            IF left = Type_Number /\ right = Type_Number THEN Some(Type_Number)
            ELSE IF left = Type_Text /\ right = Type_Text THEN Some(Type_Text)
            ELSE None
      [] kind \in {"MINUS", "STAR", "SLASH"} ->
            IF left = Type_Number /\ right = Type_Number THEN Some(Type_Number) ELSE None
      [] kind \in {"LESS", "LESSEQUAL", "GREATER", "GREATEREQUAL"} ->
            IF left = Type_Number /\ right = Type_Number THEN Some(Type_Bool) ELSE None
      [] kind \in {"EQUALEQUAL", "BANGEQUAL"} ->
            IF left = right THEN Some(Type_Bool) ELSE None
      [] kind \in {"AND", "OR"} ->
            IF left = Type_Bool /\ right = Type_Bool THEN Some(Type_Bool) ELSE None
\* the type of an operand expression of OperandOfType
TypeOfOperand(e) ==
    IF e.e = "Tuple"
    THEN Type_Tuple([i \in 1..Len(e.inners) |-> TypeFromToken(e.inners[i].value)])
    ELSE TypeFromToken(e.value)
\* check visited the one operator statement
OperatorChecked ==
    /\ runPc = "check"
    /\ runIndex = 2
    /\ Len(runStatements) = 1
    /\ runStatements[1].s = "Expression"
    /\ runStatements[1].expr.e \in {"Binary", "Logical"}

\* C21: for every operator and pair of operand types, the type of a Binary or
\* Logical expression is the one of the operator table, and every combination
\* outside the table is a T001 TypeError carrying the left and right operand
\* types, anchored at the operator token.
C21_OperatorTable ==
    OperatorChecked =>
        LET e == runStatements[1].expr
            left == TypeOfOperand(e.left)
            right == TypeOfOperand(e.right)
            expected == OperatorTable(e.operator.kind, left, right)
            visited == Typechecker_visit_expression(Typechecker_new, e)
        IN  IF expected # None
            THEN /\ visited.status = "ok"
                 /\ visited.value = expected[1]
                 /\ runErrors = <<>>
            ELSE /\ visited.status = "err"
                 /\ visited.value = onoi_type_error(T001(left, right), e.operator)
                 /\ runErrors = <<onoi_type_error(T001(left, right), e.operator)>>
\* "a" == 1 was rejected with both operand types at the operator
C21_Witness ==
    /\ OperatorChecked
    /\ runStatements[1].expr.operator.kind = "EQUALEQUAL"
    /\ runErrors = <<onoi_type_error(T001(Type_Text, Type_Number),
                                     runStatements[1].expr.operator)>>

(***************************************************************************)
(* Typechecker::check on statement lists with assignments                  *)
(***************************************************************************)
A_w == Token_new(TokenKindOf("IDENTIFIER", "w"), 0, 6, "w")
A_assign_z_one == Expr_Assign(A_z, A_one)
A_assign_z_true == Expr_Assign(A_z, A_true)
AssignStatements ==
    {A_let_z,                                                                \* let z = 1;
     onoi_Stmt_Let(A_z, None, A_true),                                       \* let z = true;
     onoi_Stmt_Expression(A_assign_z_one),                                   \* z = 1;
     onoi_Stmt_Expression(A_assign_z_true),                                  \* z = true;
     onoi_Stmt_Expression(Expr_Assign(A_w, A_one)),                          \* w = 1;
     onoi_Stmt_Expression(Expr_Assign(A_z, A_assign_z_true)),                \* z = z = true;
     onoi_Stmt_Expression(Expr_Block(<<>>, Some(A_assign_z_true))),          \* { z = true }
     onoi_Stmt_Expression(Expr_Block(<<A_let_z>>, Some(A_neg_true)))}        \* { let z = 1; -true }
AssignPrograms == SeqsUpTo(AssignStatements, MaxStatements)

\* Typechecker::new().check(&statements)
AssignInit ==
    /\ EnvIdle
    /\ ParIdle
    /\ LegIdle
    /\ LexIdle
    /\ runSrc = <<>>
    /\ runPc = "check"
    /\ runTokens = <<>>
    /\ runStatements \in AssignPrograms
    /\ typechecker = None
    /\ interpreter = None
    /\ runIndex = 1
    /\ runErrors = <<>>
    /\ runTrace = <<>>
    /\ runResult = None

AssignNext ==
    \/ CheckStatement
    \/ CheckFinish

SpecAssign == AssignInit /\ [][AssignNext]_vars

\* stmt is an assignment expression statement, alone or as the only
\* expression of a block
IsAssignment(stmt) ==
    /\ stmt.s = "Expression"
    /\ \/ stmt.expr.e = "Assign"
       \/ /\ stmt.expr.e = "Block"
          /\ stmt.expr.statements = <<>>
          /\ stmt.expr.finally # None
          /\ stmt.expr.finally[1].e = "Assign"
AssignmentOf(stmt) == IF stmt.expr.e = "Assign" THEN stmt.expr ELSE stmt.expr.finally[1]
\* the type recorded for name in the innermost frame that declares it
DeclaredType(scope, name) ==
    IF BindingFrame(scope, name) = 0 THEN None
    ELSE Some(scope[BindingFrame(scope, name)][name])
\* check is about to visit an assignment whose right side type-checks
CheckingAssignment ==
    /\ CheckingStatement
    /\ IsAssignment(runStatements[runIndex])
    /\ ~IllTyped(AssignmentOf(runStatements[runIndex]).expr)

\* C22: checking `x = e` whose right side type-checks reports T004 at the
\* identifier when no frame of the scope chain declares x and T005 with the
\* declared and the assigned type at the identifier when x is declared with
\* another type, in both cases leaving the type recorded for every name
\* unchanged; when the types are equal nothing is reported and the type of the
\* assignment is the assigned type.
C22_AssignmentChecked ==
    [][CheckingAssignment =>
          LET a == AssignmentOf(runStatements[runIndex])
              assigned == Typechecker_visit_expression(TheTypechecker, a.expr).value
              declared == DeclaredType(TheTypechecker.scope, a.name.lexeme)
              visited == Typechecker_visit_expression(TheTypechecker, a)
          IN  /\ declared = None =>
                    runErrors' = Append(runErrors, onoi_type_error(Errno("T004"), a.name))
              /\ (declared # None /\ declared # Some(assigned)) =>
                    runErrors' = Append(runErrors,
                                        onoi_type_error(T005(declared[1], assigned), a.name))
              /\ declared = Some(assigned) =>
                    /\ runErrors' = runErrors
                    /\ visited.status = "ok"
                    /\ visited.value = assigned
              /\ \A n \in {"z", "w"} :
                    DeclaredType(typechecker'[1].scope, n)
                        = DeclaredType(TheTypechecker.scope, n)]_vars
\* `z = true` was visited with z declared as Number in an enclosing frame
C22_Witness ==
    /\ runPc = "check"
    /\ runIndex > 1
    /\ IsAssignment(runStatements[runIndex - 1])
    /\ runErrors # <<>>
    /\ runErrors[Len(runErrors)] = onoi_type_error(T005(Type_Number, Type_Bool), A_z)
    /\ BindingFrame(typechecker[1].scope, "z") > 1

(***************************************************************************)
(* Interpreter::interpret on one division `let q = l / r;`                 *)
(***************************************************************************)
MaxNumber == 2
D_slash == Token_new(TokenKind("SLASH"), 0, 9, "/")
D_q == Token_new(TokenKindOf("IDENTIFIER", "q"), 0, 4, "q")
D_number(n) == Expr_Literal(Token_new(TokenKindOf("NUMBER", F64(n, 1)), 0, 8, ToString(n)))
\* the operands: n, -n, 1 - 1 and 1 / 2
DivisionOperands ==
    {D_number(n) : n \in 0..MaxNumber}
        \cup {Expr_Unary(A_minus, D_number(n)) : n \in 0..MaxNumber}
        \cup {Expr_Binary(A_minus, D_number(1), D_number(1)),
              Expr_Binary(D_slash, D_number(1), D_number(2))}
DivisionStatements ==
    {onoi_Stmt_Let(D_q, None, Expr_Binary(D_slash, l, r)) :
        l \in DivisionOperands, r \in DivisionOperands}

\* Interpreter::new().interpret(&[stmt]) for one division statement
DivisionInit ==
    /\ EnvIdle
    /\ ParIdle
    /\ LegIdle
    /\ LexIdle
    /\ runSrc = <<>>
    /\ runPc = "interpret"
    /\ runTokens = <<>>
    /\ runStatements \in {<<stmt>> : stmt \in DivisionStatements}
    /\ typechecker = None
    /\ interpreter = None
    /\ runIndex = 1
    /\ runErrors = <<>>
    /\ runTrace = <<>>
    /\ runResult = None

DivisionNext ==
    \/ InterpretStatement
    \/ InterpretFinish

SpecDivision == DivisionInit /\ [][DivisionNext]_vars

\* the f64 an operand of DivisionOperands evaluates to
OperandValue(e) == onoi_visit_expression(onoi_Interpreter_new, e).value.v
\* interpret visited the one division statement
Divided ==
    /\ runPc = "interpret"
    /\ runIndex = 2
    /\ Len(runStatements) = 1
    /\ runStatements[1].s = "Let"
    /\ runStatements[1].initializer.e = "Binary"
    /\ runStatements[1].initializer.operator.kind = "SLASH"
\* the `/` token given to the legacy Interpreter::binary
LegacySlash == Token("SLASH", None, "/", 0, 9)

\* C23: `l / r` on Numbers gives the division-by-zero RuntimeError anchored at
\* the `/` token when r is zero, and otherwise the Number q with q * r = l; it
\* never panics and never gives a value without a finite quotient (infinite or
\* NaN, denominator 0 here).  The legacy Interpreter::binary agrees on when
\* the error is returned.
C23_DivisionByZero ==
    /\ runPc # "panicked"
    /\ Divided =>
          LET e == runStatements[1].initializer
              l == OperandValue(e.left)
              r == OperandValue(e.right)
              q == get(interpreter[1].scope, "q")
              legacy == binary(LegacySlash, Number(l.n), Number(r.n))
          IN  /\ IF r.n = 0
                 THEN /\ runErrors = <<onoi_runtime_error(Errno("R001"), e.operator)>>
                      /\ q = None
                 ELSE /\ runErrors = <<>>
                      /\ q # None
                      /\ q[1].t = "Number"
                      /\ q[1].v.d # 0
                      /\ q[1].v.n * r.n * l.d = l.n * r.d * q[1].v.d
              /\ (l.d = 1 /\ r.d = 1) =>
                    IF r.n = 0
                    THEN /\ ~legacy.ok
                         /\ legacy.error = runtime_error([code |-> "R002"], LegacySlash)
                    ELSE /\ legacy.ok
                         /\ legacy.value.t = "Number"
\* 1 / -0 was interpreted and reported
C23_Witness ==
    /\ Divided
    /\ runStatements[1].initializer.right.e = "Unary"
    /\ runErrors = <<onoi_runtime_error(Errno("R001"), D_slash)>>

(***************************************************************************)
(* Interpreter::interpret on `let x = ..; let q = a or b;` / `a and b`     *)
(***************************************************************************)
L_x == Token_new(TokenKindOf("IDENTIFIER", "x"), 0, 4, "x")
L_false == Expr_Literal(Token_new(TokenKind("FALSE"), 0, 3, "false"))
L_or == Token_new(TokenKind("OR"), 0, 7, "or")
L_and == Token_new(TokenKind("AND"), 0, 7, "and")
L_assign_x_true == Expr_Assign(L_x, A_true)
\* 1 / 0 == 1
L_fails == Expr_Binary(Token_new(TokenKind("EQUALEQUAL"), 0, 12, "=="),
                       Expr_Binary(D_slash, D_number(1), D_number(0)), D_number(1))
LeftOperands == {A_true, L_false, Expr_Variable(L_x), L_assign_x_true}
RightOperands == {A_true, L_false, Expr_Variable(L_x), L_assign_x_true, L_fails}
LogicalPrograms ==
    {<<onoi_Stmt_Let(L_x, None, init),
       onoi_Stmt_Let(D_q, None, Expr_Logical(operator, a, b))>> :
        init \in {A_true, L_false}, operator \in {L_or, L_and},
        a \in LeftOperands, b \in RightOperands}

\* Interpreter::new().interpret(&statements)
LogicalInit ==
    /\ EnvIdle
    /\ ParIdle
    /\ LegIdle
    /\ LexIdle
    /\ runSrc = <<>>
    /\ runPc = "interpret"
    /\ runTokens = <<>>
    /\ runStatements \in LogicalPrograms
    /\ typechecker = None
    /\ interpreter = None
    /\ runIndex = 1
    /\ runErrors = <<>>
    /\ runTrace = <<>>
    /\ runResult = None

LogicalNext ==
    \/ InterpretStatement
    \/ InterpretFinish

SpecLogical == LogicalInit /\ [][LogicalNext]_vars

\* interpret is about to visit `let q = a or b;` or `let q = a and b;`
InterpretingLogical ==
    /\ runPc = "interpret"
    /\ runIndex <= Len(runStatements)
    /\ runStatements[runIndex].s = "Let"
    /\ runStatements[runIndex].initializer.e = "Logical"
\* the value of the left operand decides the result of the operator
Decides(kind, value) ==
    \/ kind = "OR" /\ value = TRUE
    \/ kind = "AND" /\ value = FALSE
\* the legacy Interpreter on `a or x = 1` / `a and x = 1` with x bound to 0
LegacyLogical(kind, a) ==
    visit_expression([Interpreter_new EXCEPT !.environment = define(@, "x", Number(0))],
                     Logical(Tk(kind, kind), Literal(Tk(a, a)), Assign(IdTok("x"), Num(1))),
                     0)

\* C24: when the left operand decides (`a or b` with a true, `a and b` with a
\* false) the right operand is not evaluated: the state is the one left by a
\* alone, no error of b is reported, and the result is the value of a.
\* Otherwise a is evaluated, then b in the state a left, and the result, or the
\* runtime error, is that of b.  The legacy Interpreter does the same.
C24_ShortCircuit ==
    [][InterpretingLogical =>
          LET e == runStatements[runIndex].initializer
              a == onoi_visit_expression(TheInterpreter, e.left)
              b == onoi_visit_expression(a.self, e.right)
          IN  /\ runPc' # "panicked"
              /\ IF Decides(e.operator.kind, a.value.v)
                 THEN /\ interpreter'[1].scope = define(a.self.scope, "q", a.value)
                      /\ runErrors' = runErrors
                 ELSE IF b.status = "ok"
                 THEN /\ interpreter'[1].scope = define(b.self.scope, "q", b.value)
                      /\ runErrors' = runErrors
                 ELSE /\ interpreter'[1] = b.self
                      /\ runErrors' = Append(runErrors, b.value)
              /\ e.left.e = "Literal" =>
                    LET legacy == LegacyLogical(e.operator.kind, e.left.value.kind)
                    IN  /\ legacy.ok
                        /\ IF Decides(e.operator.kind, e.left.value.kind = "TRUE")
                           THEN /\ legacy.value = Bool(e.left.value.kind = "TRUE")
                                /\ get(legacy.st.environment, "x") = Some(Number(0))
                           ELSE /\ legacy.value = Number(1)
                                /\ get(legacy.st.environment, "x") = Some(Number(1))]_vars
\* `true or x = true` was interpreted with x false: q is true and x still false
C24_Witness ==
    /\ runPc = "interpret"
    /\ runIndex = 3
    /\ runStatements[2].initializer.e = "Logical"
    /\ runStatements[2].initializer.operator.kind = "OR"
    /\ runStatements[2].initializer.left = A_true
    /\ runStatements[2].initializer.right = L_assign_x_true
    /\ get(interpreter[1].scope, "x") = Some(Value_Bool(FALSE))
    /\ get(interpreter[1].scope, "q") = Some(Value_Bool(TRUE))

(***************************************************************************)
(* Lexer::tokenize of a source, then of its lexemes written out again      *)
(***************************************************************************)
MaxRelexLen == 3
RelexAlphabet == {"1", ".", "a", "=", "\"", "\n", "#"}
RelexSources == SeqsUpTo(RelexAlphabet, MaxRelexLen)

\* tokenize up to its while loop
RelexBegin ==
    /\ lexPc = "new"
    /\ \E src \in RelexSources :
        /\ lexSrc' = src
        /\ lexer' = [lexer EXCEPT !.graphemes = src]
    /\ lexErrors' = <<>>
    /\ lexPc' = "scan"
    /\ UNCHANGED <<overflow_checks, lexResult, notLexVars>>

RelexNext == RelexBegin \/ TokenizeScan \/ TokenizeFinish

SpecRelex == LexInit /\ [][RelexNext]_vars

\* UnicodeSegmentation::graphemes on the text of a lexeme: the graphemes whose
\* concatenation is the text
LexemeTexts == [g \in RelexSources |-> Slice(g, 0, Len(g))]
graphemes(text) == CHOOSE g \in RelexSources : LexemeTexts[g] = text
\* the lexemes of tokens i.. except EOF, each followed by a space
RECURSIVE Rejoined(_, _)
Rejoined(tokens, i) ==
    IF i > Len(tokens) THEN <<>>
    ELSE IF tokens[i].kind = "EOF" THEN Rejoined(tokens, i + 1)
    ELSE graphemes(tokens[i].lexeme) \o <<" ">> \o Rejoined(tokens, i + 1)
\* the tokens without their positions
KindsAndLexemes(tokens) ==
    [i \in 1..Len(tokens) |->
        [kind |-> tokens[i].kind, payload |-> tokens[i].payload, lexeme |-> tokens[i].lexeme]]
\* tokenize returned Ok(tokens)
TokenizedOk ==
    /\ lexPc = "done"
    /\ lexResult # None
    /\ lexResult[1].ok

\* C25: when a source tokenizes without error, the text made of the lexemes of
\* its tokens other than EOF, separated by whitespace, tokenizes without error
\* to tokens of the same kinds, payloads and lexemes, in the same order.
C25_RelexRoundTrip ==
    TokenizedOk =>
        LET again == tokenize(Lexer_new, Rejoined(lexResult[1].value, 1), overflow_checks)
        IN  /\ again.status = "returned"
            /\ again.result.ok
            /\ KindsAndLexemes(again.result.value) = KindsAndLexemes(lexResult[1].value)
\* a source with a comment, a number with a fraction or a string, and at
\* least two tokens, was tokenized
C25_Witness ==
    /\ TokenizedOk
    /\ Len(lexResult[1].value) >= 3
    /\ \E i \in 1..Len(lexSrc) : lexSrc[i] \in {"#", ".", "\""}

(***************************************************************************)
(* Typechecker::check called twice on one statement list                   *)
(***************************************************************************)
\* the second call made on the Typechecker the first call used
rechecker_reused(used) == used
\* the Typechecker of the second call: Typechecker::new(), whatever was used before
rechecker(used) == Typechecker_new

\* a second Typechecker::new().check(&statements) after the first returned
CheckAgain ==
    /\ runPc \in {"interpret", "returned"}
    /\ Len(runTrace) = 1
    /\ runPc' = "check"
    /\ typechecker' = Some(rechecker(TheTypechecker))
    /\ runResult' = None
    /\ UNCHANGED <<runSrc, runTokens, runStatements, interpreter, runIndex, runErrors, runTrace>>
    /\ UNCHANGED <<overflow_checks, notRunVars>>

RecheckNext ==
    \/ CheckStatement
    \/ CheckFinish
    \/ CheckAgain

SpecRecheck == CheckInit /\ [][RecheckNext]_vars

\* both calls of check returned
CheckedTwice ==
    /\ Len(runTrace) = 2
    /\ runTrace[1].phase = "check"
    /\ runTrace[2].phase = "check"

Stmt_While(condition, body) == [s |-> "While", condition |-> condition, body |-> body]
MaxNesting == 2
TrueLiteral == Literal(Tk("TRUE", "true"))
\* inner wrapped in the statements named by ws, ws[k] outermost
RECURSIVE Nested(_, _, _)
Nested(ws, k, inner) ==
    IF k > Len(ws) THEN inner
    ELSE LET body == Nested(ws, k + 1, inner)
         IN  CASE ws[k] = "block" -> Stmt_Block(<<body>>)
               [] ws[k] = "if" -> Stmt_If(TrueLiteral, body, None)
               [] ws[k] = "while" -> Stmt_While(TrueLiteral, body)
               [] ws[k] = "for" ->
                    Stmt_For(IdTok("i"), Range(RangeToken, Num(0), None, Num(3)), body)
\* fun f() { <ws> { print 8; return v; } print 9; return 0; }
\* fun g() { print f(); print 5; return 7; }
\* print g();
ReturnProgram(ws, v) ==
    << Stmt_Function(IdTok("f"), <<>>,
          << Nested(ws, 1, Stmt_Block(<<Stmt_Print(Num(8)), ReturnOf(Num(v))>>)),
             Stmt_Print(Num(9)), ReturnOf(Num(0)) >>),
       Stmt_Function(IdTok("g"), <<>>,
          << Stmt_Print(CallOf("f", <<>>)), Stmt_Print(Num(5)), ReturnOf(Num(7)) >>),
       Stmt_Print(CallOf("g", <<>>)) >>
\* fun f() { <ws> { print 8; } }   fun g() as above   print g();
NoReturnProgram(ws) ==
    << Stmt_Function(IdTok("f"), <<>>,
          << Nested(ws, 1, Stmt_Block(<<Stmt_Print(Num(8))>>)) >>),
       Stmt_Function(IdTok("g"), <<>>,
          << Stmt_Print(CallOf("f", <<>>)), Stmt_Print(Num(5)), ReturnOf(Num(7)) >>),
       Stmt_Print(CallOf("g", <<>>)) >>
Nestings == SeqsUpTo({"block", "if", "while", "for"}, MaxNesting)
PlainNestings == SeqsUpTo({"block", "if"}, MaxNesting)
ReturnValues == {1, 2}
ReturnPrograms ==
    {ReturnProgram(ws, v) : ws \in Nestings, v \in ReturnValues}
        \cup {NoReturnProgram(ws) : ws \in PlainNestings}

\* Interpreter::new().interpret(statements)
ReturnInit ==
    /\ EnvIdle
    /\ ParIdle
    /\ LexIdle
    /\ RunIdle
    /\ legStatements \in ReturnPrograms
    /\ legPc = 1
    /\ legSt = Interpreter_new
    /\ legResult = None

SpecReturn == ReturnInit /\ [][LegNext]_vars

\* interpret returned or stopped
InterpretEnded == legResult # None

\* C27: a `return` inside blocks, `if`, `while` and `for` statements of a
\* function body ends the call: the statement after it in its block, further
\* loop iterations and the rest of the body are not executed, its value is the
\* result of that call, and the calling function goes on with that result and
\* returns its own value; a body without `return` gives Null.
C27_ReturnUnwindsToCall ==
    InterpretEnded =>
        /\ legResult[1].tag = "Ok"
        /\ \A ws \in Nestings, v \in ReturnValues :
              legStatements = ReturnProgram(ws, v) =>
                  legSt.out = <<"8", ToString(v), "5", "7">>
        /\ \A ws \in PlainNestings :
              legStatements = NoReturnProgram(ws) => legSt.out = <<"8", "null", "5", "7">>
\* f returned 2 from inside a `for` inside a `while`
C27_Witness ==
    /\ InterpretEnded
    /\ legStatements = ReturnProgram(<<"while", "for">>, 2)
    /\ legSt.out = <<"8", "2", "5", "7">>

(***************************************************************************)
(* Program::feed: statements fed one at a time to one Interpreter          *)
(***************************************************************************)
MaxFeeds == 3
F_let_y == Stmt_Let(IdTok("y"), Num(2))
F_z == Stmt_Expression(Var("z"))
FeedStatements ==
    {S_let_x,                                                        \* let x = 1;
     Stmt_Block(<<F_let_y>>),                                        \* { let y = 2; }
     Stmt_Block(<<F_let_y, Stmt_Print(Var("y"))>>),                  \* { let y = 2; print y; }
     Stmt_Function(IdTok("f"), <<>>, <<F_let_y, ReturnOf(Var("y"))>>),  \* fun f() { let y = 2; return y; }
     Stmt_Expression(CallOf("f", <<>>)),                             \* f();
     Stmt_Function(IdTok("e"), <<>>, <<F_let_y, F_z>>),              \* fun e() { let y = 2; z; }
     Stmt_Expression(CallOf("e", <<>>)),                             \* e();
     Stmt_Print(Var("y"))}                                           \* print y;
FeedPrograms == SeqsUpTo(FeedStatements, MaxFeeds)

\* Program::new(): one Interpreter for every feed
FeedInit ==
    /\ EnvIdle
    /\ ParIdle
    /\ LexIdle
    /\ RunIdle
    /\ legStatements \in FeedPrograms
    /\ legPc = 1
    /\ legSt = Interpreter_new
    /\ legResult = None

\* Program::feed with a source of one statement: self.interpreter.interpret
\* visits it, Ok or Err is reported, and the Interpreter is kept for the next feed
Feed ==
    /\ legPc <= Len(legStatements)
    /\ LET r == visit_statement(legSt, legStatements[legPc], MaxCallDepth)
       IN  /\ legSt' = r.st
           /\ legResult' = IF r.ok THEN Some([tag |-> "Ok"])
                           ELSE Some([tag |-> "Err", error |-> r.error])
    /\ legPc' = legPc + 1
    /\ UNCHANGED <<legStatements, notLegVars>>

FeedNext == Feed

SpecFeed == FeedInit /\ [][FeedNext]_vars

\* the next feed is a Block statement or a call
FeedingBlockOrCall ==
    /\ legPc <= Len(legStatements)
    /\ \/ legStatements[legPc].s = "Block"
       \/ /\ legStatements[legPc].s = "Expression"
          /\ legStatements[legPc].expr.e = "Call"

\* C28: after a Block statement or a function call ended, normally, by
\* `return` or by a runtime error raised inside it, the Interpreter's active
\* environment is the one that was active when it was entered: the chain has
\* the same frames and the same names are visible, so the next statement fed
\* to the Interpreter resolves names in that scope.
C28_EnvironmentRestored ==
    [][FeedingBlockOrCall =>
          /\ Len(legSt'.environment) = Len(legSt.environment)
          /\ \A n \in {"x", "y", "z", "f", "e"} :
                (get(legSt'.environment, n) = None) = (get(legSt.environment, n) = None)]_vars

\* a Parser that returned from one call of parse is in its second call
SecondParse == Len(parseResults) >= 1 /\ parsePc # "call"

\* C29: a second call of parse on the same Parser reads the list it is given
\* from its first token: it never reads an index outside the list and returns
\* what a newly constructed Parser returns for that list.
C29_ParseStartsAtFirstToken ==
    /\ SecondParse =>
          /\ parsePc # "panicked"
          /\ parser.current < Len(parser.tokens)
    /\ Len(parseResults) = 2 =>
          parseResults[2] = parse(Parser_new, parser.tokens).result


\* ---------------------------------------------------------------------------
\* Termination of parse on a newly constructed Parser
\* ---------------------------------------------------------------------------

\* the Parser is in, or in front of, the first call of parse it ever got
FirstParse == Len(parseResults) = 0

\* one iteration of the loop added one statement, or else one error
OneStatementOrOneError ==
    \/ /\ Len(parseStatements') = Len(parseStatements) + 1
       /\ parseErrors' = parseErrors
    \/ /\ Len(parseErrors') = Len(parseErrors) + 1
       /\ parseStatements' = parseStatements

\* C30: on a newly constructed Parser, parse terminates for every token list
\* that ends with EOF: the loop never panics, every iteration of it parses a
\* statement or records an error and synchronizes, consumes at least one token
\* either way, and the cursor never moves past the EOF token. The cursor is
\* the variant of the loop: it grows in every iteration and is bounded by the
\* position of EOF.
C30_ParseTerminates ==
    /\ [](FirstParse => parsePc # "panicked")
    /\ []((FirstParse /\ parsePc = "loop") => parser.current < Len(parser.tokens))
    /\ [][(FirstParse /\ ParsingDeclaration) =>
             /\ OneStatementOrOneError
             /\ parser'.current > parser.current
             /\ parser'.current < Len(parser'.tokens)]_vars

\* the first call of parse returned errors after an iteration that had to
\* synchronize, with the cursor on the EOF token
C30_Witness ==
    /\ Len(parseResults) = 1
    /\ parsePc = "call"
    /\ ~parseResults[1].ok
    /\ parser.current = Len(parser.tokens) - 1

====
